---- MODULE Spec2Model ----
(***************************************************************************)
(* A model of the gaussformula engine core: the dependency graph           *)
(* (src/src/DependencyGraph/DependencyGraph.ts) and the caching parser     *)
(* (src/src/parser/ParserWithCaching.ts, src/src/parser/index.ts).         *)
(*                                                                         *)
(* The whole engine state is kept in one record, `dg`, so that every       *)
(* method of the source is an operator from a state record to a state      *)
(* record and a handler is the composition of the calls it makes.          *)
(***************************************************************************)
EXTENDS Integers, Sequences, FiniteSets, TLC

VARIABLES
  dg,      \* the DependencyGraph instance: graph, mappings, named expressions
  last,    \* the graph operation that produced this state, with what it found
  ops,     \* number of operations performed so far
  parser,  \* the ParserWithCaching instance
  parsed,  \* the parser call that produced this state, with what it returned
  served   \* by hash, the AST that the first successful parse returned

vars == <<dg, last, ops, parser, parsed, served>>

-----------------------------------------------------------------------------
(* Bounds of the model *)

\* operations in one run
MaxOps == 3

-----------------------------------------------------------------------------
(* Addresses and ranges (src/src/Cell.ts, AbsoluteCellRange) *)

simpleCellAddress(sheet, col, row) == [sheet |-> sheet, col |-> col, row |-> row]

SHEET_FOR_WORKBOOK_EXPRESSIONS == -1

Sheet1 == 0

Sheet2 == 1

\* the sheetId of a call without one (the scope of the workbook), and the
\* sheet of a reference written without a sheet name: undefined
NoSheet == -2

AbsoluteCellRange(start, end) == [start |-> start, end |-> end]

\* AbsoluteCellRange.addresses: the addresses of a finite range
addresses(range) ==
  { simpleCellAddress(range.start.sheet, c, r) :
      c \in range.start.col..range.end.col, r \in range.start.row..range.end.row }

height(range) == range.end.row - range.start.row + 1

width(range) == range.end.col - range.start.col + 1

\* Number.POSITIVE_INFINITY, the end row of a whole-column range
Infinity == 99

\* new AbsoluteColumnRange(sheet, columnStart, columnEnd)
AbsoluteColumnRange(sheet, columnStart, columnEnd) ==
  AbsoluteCellRange(simpleCellAddress(sheet, columnStart, 0),
                    simpleCellAddress(sheet, columnEnd, Infinity))

\* AbsoluteCellRange.isFinite
isFinite(range) == range.end.row # Infinity

\* AbsoluteCellRange.addressInRange
addressInRange(range, address) ==
  /\ address.sheet = range.start.sheet
  /\ range.start.col <= address.col /\ address.col <= range.end.col
  /\ range.start.row <= address.row /\ address.row <= range.end.row

\* AbsoluteCellRange.spanFrom
spanFrom(topLeftCorner, w, h) ==
  AbsoluteCellRange(topLeftCorner,
                    simpleCellAddress(topLeftCorner.sheet, topLeftCorner.col + w - 1,
                                      topLeftCorner.row + h - 1))

NoAddress == simpleCellAddress(-9, -9, -9)
NoRange == AbsoluteCellRange(NoAddress, NoAddress)
NoId == 0

-----------------------------------------------------------------------------
(* Formula text, as the token sequence the lexer produces for it *)

EqualsOpToken == [tokenType |-> "EqualsOp"]
RangeSeparatorToken == [tokenType |-> "RangeSeparator"]
RParenToken == [tokenType |-> "RParen"]
PlusOpToken == [tokenType |-> "PlusOp"]
\* a reference written A1, $A1, A$1 or $A$1: the cell it names and its $ signs
CellReferenceToken(col, row, colAbs, rowAbs) ==
  [tokenType |-> "CellReference", sheet |-> NoSheet, col |-> col, row |-> row,
   colAbs |-> colAbs, rowAbs |-> rowAbs]
\* a reference written with a sheet name, Sheet2!A1
SheetCellReferenceToken(sheet, col, row, colAbs, rowAbs) ==
  [tokenType |-> "CellReference", sheet |-> sheet, col |-> col, row |-> row,
   colAbs |-> colAbs, rowAbs |-> rowAbs]
\* a function name with its opening parenthesis, as typed
ProcedureNameToken(image) == [tokenType |-> "ProcedureName", image |-> image]
NamedExpressionToken(image) == [tokenType |-> "NamedExpression", image |-> image]
\* a whole-column range written A:A, $A:B, ...: its two columns and their $ signs
ColumnRangeToken(startCol, startAbs, endCol, endAbs) ==
  [tokenType |-> "ColumnRange", startCol |-> startCol, startAbs |-> startAbs,
   endCol |-> endCol, endAbs |-> endAbs]
\* a whole-row range written 1:1, $2:1, ...: its two rows and their $ signs
RowRangeToken(startRow, startAbs, endRow, endAbs) ==
  [tokenType |-> "RowRange", startRow |-> startRow, startAbs |-> startAbs,
   endRow |-> endRow, endAbs |-> endAbs]
\* a character that the lexer has no token for
IllegalCharacter == [tokenType |-> "Illegal"]

-----------------------------------------------------------------------------
(* Relative addresses (parser/CellAddress) *)

\* cellAddressFromString: a reference read at baseAddress; the parts without
\* a $ sign are stored as offsets from baseAddress
cellAddressFromString(token, baseAddress) ==
  [sheet |-> token.sheet,
   col |-> IF token.colAbs THEN token.col ELSE token.col - baseAddress.col,
   row |-> IF token.rowAbs THEN token.row ELSE token.row - baseAddress.row,
   colAbs |-> token.colAbs, rowAbs |-> token.rowAbs]

\* CellAddress.toSimpleCellAddress
toSimpleCellAddress(ref, baseAddress) ==
  simpleCellAddress(IF ref.sheet = NoSheet THEN baseAddress.sheet ELSE ref.sheet,
                    IF ref.colAbs THEN ref.col ELSE baseAddress.col + ref.col,
                    IF ref.rowAbs THEN ref.row ELSE baseAddress.row + ref.row)

\* columnAddressFromString: a column read at baseAddress
columnAddressFromString(col, colAbs, baseAddress) ==
  [sheet |-> NoSheet, col |-> IF colAbs THEN col ELSE col - baseAddress.col, colAbs |-> colAbs]

\* ColumnAddress.toSimpleColumnAddress
toSimpleColumnAddress(ref, baseAddress) ==
  [sheet |-> IF ref.sheet = NoSheet THEN baseAddress.sheet ELSE ref.sheet,
   col |-> IF ref.colAbs THEN ref.col ELSE baseAddress.col + ref.col]

\* rowAddressFromString: a row read at baseAddress
rowAddressFromString(row, rowAbs, baseAddress) ==
  [sheet |-> NoSheet, row |-> IF rowAbs THEN row ELSE row - baseAddress.row, rowAbs |-> rowAbs]

\* RowAddress.toSimpleRowAddress
toSimpleRowAddress(ref, baseAddress) ==
  [sheet |-> IF ref.sheet = NoSheet THEN baseAddress.sheet ELSE ref.sheet,
   row |-> IF ref.rowAbs THEN ref.row ELSE baseAddress.row + ref.row]

-----------------------------------------------------------------------------
(* Abstract syntax trees *)

buildCellReferenceAst(ref) == [type |-> "CELL_REFERENCE", reference |-> ref]
\* sheetReferenceType: which ends of a range were written with a sheet name
buildCellRangeAst(start, end, sheetReferenceType) ==
  [type |-> "CELL_RANGE", start |-> start, end |-> end, sheetReferenceType |-> sheetReferenceType]
buildColumnRangeAst(start, end, sheetReferenceType) ==
  [type |-> "COLUMN_RANGE", start |-> start, end |-> end, sheetReferenceType |-> sheetReferenceType]
buildRowRangeAst(start, end, sheetReferenceType) ==
  [type |-> "ROW_RANGE", start |-> start, end |-> end, sheetReferenceType |-> sheetReferenceType]
buildProcedureAst(name, args) ==
  [type |-> "FUNCTION_CALL", procedureName |-> name, args |-> args]
buildNamedExpressionAst(name) == [type |-> "NAMED_EXPRESSION", expressionName |-> name]
buildPlusOpAst(left, right) == [type |-> "PLUS_OP", left |-> left, right |-> right]
buildParsingErrorAst == [type |-> "ERROR"]

NoAst == [type |-> "EMPTY"]

\* FunctionRegistry.isFunctionVolatile
isFunctionVolatile(functionId) == functionId \in {"rand", "randbetween", "now"}

\* FunctionRegistry.isFunctionDependentOnSheetStructureChange: the metadata
\* of FORMULATEXT
isFunctionDependentOnSheetStructureChange(functionId) == functionId = "formulatext"

\* FunctionRegistry.doesFunctionNeedArgumentToBeComputed: the metadata of
\* FORMULATEXT says it does not
doesFunctionNeedArgumentToBeComputed(procedureName) == procedureName # "FORMULATEXT"

\* String.prototype.toUpperCase / toLowerCase on the function names of the inputs
toUpperCase(image) ==
  CASE image \in {"SUM(", "sum("} -> "SUM("
    [] image \in {"RAND(", "rand("} -> "RAND("
    [] OTHER -> image

toLowerCase(name) ==
  CASE name = "SUM" -> "sum"
    [] name = "RAND" -> "rand"
    [] name = "ARRAYFORMULA" -> "arrayformula"
    [] name = "FORMULATEXT" -> "formulatext"
    [] name = "Foo" -> "foo"
    [] OTHER -> name

\* image.slice(0, -1): the function name without its parenthesis
sliceParen(image) ==
  CASE image = "SUM(" -> "SUM"
    [] image = "RAND(" -> "RAND"
    [] image = "ARRAYFORMULA(" -> "ARRAYFORMULA"
    [] image = "FORMULATEXT(" -> "FORMULATEXT"
    [] OTHER -> image

-----------------------------------------------------------------------------
(* Parsing (FormulaParser.parseFromTokens) and dependency extraction *)

\* FormulaParser.rangeSheetReferenceType
rangeSheetReferenceType(startSheet, endSheet) ==
  IF startSheet = NoSheet THEN "RELATIVE"
  ELSE IF endSheet = NoSheet THEN "START_ABSOLUTE" ELSE "BOTH_ABSOLUTE"

\* FormulaParser.buildCellRange: a range whose first end alone has no sheet
\* name is a parsing error; an end without a sheet name after one with a
\* sheet name is on the sheet of the first
buildCellRange(firstAddress, secondAddress) ==
  IF firstAddress.sheet = NoSheet /\ secondAddress.sheet # NoSheet
  THEN buildParsingErrorAst
  ELSE buildCellRangeAst(firstAddress,
                         IF secondAddress.sheet = NoSheet
                         THEN [secondAddress EXCEPT !.sheet = firstAddress.sheet]
                         ELSE secondAddress,
                         rangeSheetReferenceType(firstAddress.sheet, secondAddress.sheet))

\* FormulaParser.parseFromTokens on the formula shapes of the inputs:
\* =ref   =name   =ref+ref   =FN()   =FN(ref)   =FN(ref:ref)   =FN(col:col)
\* =FN(row:row); anything else is a parsing error. Function names are
\* canonicalised to upper case.
parseFromTokens(tokens, formulaAddress) ==
  LET n == Len(tokens)
      ty(i) == tokens[i].tokenType
      ref(i) == cellAddressFromString(tokens[i], formulaAddress)
      ok(ast) == [ast |-> ast, errors |-> 0]
  IN  IF n < 2 \/ ty(1) # "EqualsOp" THEN [ast |-> buildParsingErrorAst, errors |-> 1]
      ELSE IF n = 2 /\ ty(2) = "CellReference"
        THEN ok(buildCellReferenceAst(ref(2)))
      ELSE IF n = 2 /\ ty(2) = "NamedExpression"
        THEN ok(buildNamedExpressionAst(tokens[2].image))
      ELSE IF n = 4 /\ ty(2) = "CellReference" /\ ty(3) = "PlusOp" /\ ty(4) = "CellReference"
        THEN ok(buildPlusOpAst(buildCellReferenceAst(ref(2)), buildCellReferenceAst(ref(4))))
      ELSE IF n = 3 /\ ty(2) = "ProcedureName" /\ ty(3) = "RParen"
        THEN ok(buildProcedureAst(sliceParen(toUpperCase(tokens[2].image)), <<>>))
      ELSE IF n = 4 /\ ty(2) = "ProcedureName" /\ ty(3) = "CellReference" /\ ty(4) = "RParen"
        THEN ok(buildProcedureAst(sliceParen(toUpperCase(tokens[2].image)),
                                  <<buildCellReferenceAst(ref(3))>>))
      ELSE IF n = 4 /\ ty(2) = "ProcedureName" /\ ty(3) = "ColumnRange" /\ ty(4) = "RParen"
        THEN ok(buildProcedureAst(sliceParen(toUpperCase(tokens[2].image)),
               <<buildColumnRangeAst(
                   columnAddressFromString(tokens[3].startCol, tokens[3].startAbs, formulaAddress),
                   columnAddressFromString(tokens[3].endCol, tokens[3].endAbs, formulaAddress),
                   "RELATIVE")>>))
      ELSE IF n = 4 /\ ty(2) = "ProcedureName" /\ ty(3) = "RowRange" /\ ty(4) = "RParen"
        THEN ok(buildProcedureAst(sliceParen(toUpperCase(tokens[2].image)),
               <<buildRowRangeAst(
                   rowAddressFromString(tokens[3].startRow, tokens[3].startAbs, formulaAddress),
                   rowAddressFromString(tokens[3].endRow, tokens[3].endAbs, formulaAddress),
                   "RELATIVE")>>))
      ELSE IF n = 6 /\ ty(2) = "ProcedureName" /\ ty(3) = "CellReference"
              /\ ty(4) = "RangeSeparator" /\ ty(5) = "CellReference" /\ ty(6) = "RParen"
              /\ buildCellRange(ref(3), ref(5)) # buildParsingErrorAst
        THEN ok(buildProcedureAst(sliceParen(toUpperCase(tokens[2].image)),
                                  <<buildCellRange(ref(3), ref(5))>>))
      ELSE [ast |-> buildParsingErrorAst, errors |-> 1]

\* the dependencies of parser/RelativeDependency.ts
AddressDependency(dependency) == [dep |-> "Address", dependency |-> dependency]
CellRangeDependency(start, end) == [dep |-> "CellRange", start |-> start, end |-> end]
ColumnRangeDependency(start, end) == [dep |-> "ColumnRange", start |-> start, end |-> end]
RowRangeDependency(start, end) == [dep |-> "RowRange", start |-> start, end |-> end]
NamedExpressionDependency(name) == [dep |-> "NamedExpression", name |-> name]

RECURSIVE collectDependencies(_)
RECURSIVE collectDependenciesOfArgs(_, _)

\* collectDependencies: the references of an AST, left to right
collectDependencies(ast) ==
  CASE ast.type = "CELL_REFERENCE" -> <<AddressDependency(ast.reference)>>
    [] ast.type = "CELL_RANGE" -> <<CellRangeDependency(ast.start, ast.end)>>
    [] ast.type = "COLUMN_RANGE" -> <<ColumnRangeDependency(ast.start, ast.end)>>
    [] ast.type = "ROW_RANGE" -> <<RowRangeDependency(ast.start, ast.end)>>
    [] ast.type = "NAMED_EXPRESSION" -> <<NamedExpressionDependency(ast.expressionName)>>
    [] ast.type = "PLUS_OP" -> collectDependencies(ast.left) \o collectDependencies(ast.right)
    [] ast.type = "FUNCTION_CALL" ->
         IF doesFunctionNeedArgumentToBeComputed(ast.procedureName)
         THEN collectDependenciesOfArgs(ast.args, 1)
         ELSE <<>>
    [] OTHER -> <<>>

collectDependenciesOfArgs(args, i) ==
  IF i > Len(args) THEN <<>>
  ELSE collectDependencies(args[i]) \o collectDependenciesOfArgs(args, i + 1)

\* RelativeDependency.absolutize, by class
absolutize(dep, baseAddress) ==
  CASE dep.dep = "Address" ->
         [dep |-> "Address", address |-> toSimpleCellAddress(dep.dependency, baseAddress)]
    [] dep.dep = "CellRange" ->
         [dep |-> "CellRange",
          range |-> AbsoluteCellRange(toSimpleCellAddress(dep.start, baseAddress),
                                      toSimpleCellAddress(dep.end, baseAddress))]
    [] dep.dep = "ColumnRange" ->
         [dep |-> "CellRange",
          range |-> AbsoluteColumnRange(baseAddress.sheet,
                                        toSimpleColumnAddress(dep.start, baseAddress).col,
                                        toSimpleColumnAddress(dep.end, baseAddress).col)]
    [] OTHER -> dep

\* absolutizeDependencies
absolutizeDependencies(deps, baseAddress) ==
  [i \in 1..Len(deps) |-> absolutize(deps[i], baseAddress)]

RECURSIVE doesContainFunctions(_, _)

\* doesContainFunctions with isFunctionVolatile as the criterion (volatile)
\* or with isFunctionDependentOnSheetStructureChange (structural)
doesContainFunctions(ast, volatileCriterion) ==
  CASE ast.type = "FUNCTION_CALL" ->
         \/ (volatileCriterion /\ isFunctionVolatile(toLowerCase(ast.procedureName)))
         \/ (~volatileCriterion
               /\ isFunctionDependentOnSheetStructureChange(toLowerCase(ast.procedureName)))
         \/ \E i \in 1..Len(ast.args) : doesContainFunctions(ast.args[i], volatileCriterion)
    [] ast.type = "PLUS_OP" ->
         doesContainFunctions(ast.left, volatileCriterion)
           \/ doesContainFunctions(ast.right, volatileCriterion)
    [] OTHER -> FALSE

-----------------------------------------------------------------------------
(* Vertices (DependencyGraph/*Vertex) *)

Vertex(kind, address, ast, rawValue, range, bruteForce, value) ==
  [kind |-> kind, address |-> address, ast |-> ast, rawValue |-> rawValue,
   range |-> range, bruteForce |-> bruteForce, value |-> value]

EmptyCellVertex == Vertex("Empty", NoAddress, NoAst, 0, NoRange, FALSE, "Empty")
ValueCellVertex(rawValue) == Vertex("Value", NoAddress, NoAst, rawValue, NoRange, FALSE, "Parsed")
ParsingErrorVertex == Vertex("ParsingError", NoAddress, NoAst, 0, NoRange, FALSE, "Error")
\* FormulaVertex.fromAst for a 1 x 1 formula; the value is not computed yet
FormulaCellVertex(ast, address) == Vertex("Formula", address, ast, 0, NoRange, FALSE, "Pending")
\* new RangeVertex(range): bruteForce starts false
RangeVertex(range) == Vertex("Range", NoAddress, NoAst, 0, range, FALSE, "None")

\* the predicted size of the result of a formula
ArraySize(w, h) == [width |-> w, height |-> h]

\* ArraySize.scalar()
scalar == ArraySize(1, 1)

\* an array vertex: its corner, and the width x height rectangle from the
\* corner as its range; the value is not computed yet
ArrayVertex(ast, address, size) ==
  Vertex("Array", address, ast, 0, spanFrom(address, size.width, size.height), FALSE, "Pending")

\* FormulaVertex.fromAst: an array vertex unless the size is that of a scalar
fromAst(ast, address, size) ==
  IF size.width <= 1 /\ size.height <= 1 THEN FormulaCellVertex(ast, address)
  ELSE ArrayVertex(ast, address, size)

\* instanceof FormulaVertex: the class of the formula and the array vertices
isFormulaVertex(vertex) == vertex.kind \in {"Formula", "Array"}

-----------------------------------------------------------------------------
(* Graph<Vertex>: nodes by id, edges as (from, to) pairs, dirty and         *)
(* volatile id lists. Ids come from a counter and are never reused, so     *)
(* dropping a removed id from the dirty and volatile lists is what the     *)
(* existence filter of getDirtyAndVolatileNodes amounts to.                *)

hasNode(s, id) == id \in DOMAIN s.nodes

adjacentNodes(s, id) == { e[2] : e \in { x \in s.edges : x[1] = id } }

adjacentNodesCount(s, id) == Cardinality(adjacentNodes(s, id))

\* the id that the next addNodeAndReturnId hands out
FreshId(s) == s.nextId

throw(s) == [s EXCEPT !.thrown = TRUE]

\* Graph.addNodeAndReturnId of a vertex that is not in the graph yet
addNode(s, id, vertex) ==
  IF s.thrown \/ hasNode(s, id) THEN s
  ELSE [s EXCEPT !.nodes = (id :> vertex) @@ s.nodes, !.nextId = s.nextId + 1]

\* Graph.addEdge throws when either end is not a node of the graph
addEdge(s, from, to) ==
  IF s.thrown THEN s
  ELSE IF ~hasNode(s, from) \/ ~hasNode(s, to) THEN throw(s)
  ELSE [s EXCEPT !.edges = s.edges \cup {<<from, to>>}]

\* Graph.removeEdge throws when the edge does not exist
removeEdge(s, from, to) ==
  IF s.thrown THEN s
  ELSE IF <<from, to>> \notin s.edges THEN throw(s)
  ELSE [s EXCEPT !.edges = s.edges \ {<<from, to>>}]

removeEdgeIfExists(s, from, to) ==
  IF s.thrown THEN s ELSE [s EXCEPT !.edges = s.edges \ {<<from, to>>}]

markNodeAsDirty(s, id) ==
  IF s.thrown \/ ~hasNode(s, id) THEN s ELSE [s EXCEPT !.dirty = s.dirty \cup {id}]

markNodeAsVolatile(s, id) ==
  IF s.thrown \/ ~hasNode(s, id) THEN s ELSE [s EXCEPT !.volatile = s.volatile \cup {id}]

clearDirtyNodes(s) == [s EXCEPT !.dirty = {}]

getDirtyAndVolatileNodes(s) == (s.dirty \cup s.volatile) \cap DOMAIN s.nodes

\* Graph.markNodeAsInfiniteRange: the index of the whole-column ranges
markNodeAsInfiniteRange(s, id) ==
  IF s.thrown \/ ~hasNode(s, id) THEN s
  ELSE [s EXCEPT !.infiniteRanges = s.infiniteRanges \cup {id}]

getInfiniteRanges(s) == s.infiniteRanges \cap DOMAIN s.nodes

\* Graph.markNodeAsChangingWithStructure
markNodeAsChangingWithStructure(s, id) ==
  IF s.thrown \/ ~hasNode(s, id) THEN s
  ELSE [s EXCEPT !.changingWithStructure = s.changingWithStructure \cup {id}]

\* Graph.removeNode once the dependency query has been answered with
\* `dependencies` (pairs <<address, id>>): the dependents become dirty, the
\* edges from the dependencies and the node's own edges go, then the node
graphRemoveNode(s, id, dependencies) ==
  IF s.thrown THEN s
  ELSE IF ~hasNode(s, id) THEN throw(s)
  ELSE LET incoming == { <<d[2], id>> : d \in dependencies }
           outgoing == { e \in s.edges : e[1] = id }
       IN  [s EXCEPT !.dirty = (s.dirty \cup adjacentNodes(s, id)) \ {id},
                     !.volatile = s.volatile \ {id},
                     !.infiniteRanges = s.infiniteRanges \ {id},
                     !.changingWithStructure = s.changingWithStructure \ {id},
                     !.edges = (s.edges \ incoming) \ outgoing,
                     !.nodes = [k \in DOMAIN s.nodes \ {id} |-> s.nodes[k]]]

-----------------------------------------------------------------------------
(* AddressMapping, RangeMapping, ArrayMapping *)

getCell(s, address) == IF address \in DOMAIN s.addressMapping THEN s.addressMapping[address] ELSE NoId

setCell(s, address, id) ==
  IF s.thrown THEN s
  ELSE [s EXCEPT !.addressMapping =
          [a \in DOMAIN s.addressMapping \cup {address} |->
             IF a = address THEN id ELSE s.addressMapping[a]]]

removeCell(s, address) ==
  IF s.thrown THEN s
  ELSE [s EXCEPT !.addressMapping =
          [a \in DOMAIN s.addressMapping \ {address} |-> s.addressMapping[a]]]

\* AddressMapping.getHeight: one more than the last row of the sheet that
\* holds a cell
getSheetHeight(s, sheet) ==
  LET rows == { a.row : a \in { x \in DOMAIN s.addressMapping : x.sheet = sheet } }
  IN  IF rows = {} THEN 0 ELSE 1 + (CHOOSE r \in rows : \A q \in rows : q <= r)

\* range.addresses(dependencyGraph): a whole-column range ends at the last
\* row of its sheet
rangeAddresses(s, range) ==
  IF isFinite(range) THEN addresses(range)
  ELSE addresses(AbsoluteCellRange(range.start,
         simpleCellAddress(range.end.sheet, range.end.col,
                           getSheetHeight(s, range.start.sheet) - 1)))

getRange(s, range) == IF range \in DOMAIN s.rangeMapping THEN s.rangeMapping[range] ELSE NoId

setRange(s, range, id) ==
  IF s.thrown THEN s
  ELSE [s EXCEPT !.rangeMapping =
          [r \in DOMAIN s.rangeMapping \cup {range} |->
             IF r = range THEN id ELSE s.rangeMapping[r]]]

removeRange(s, range) ==
  IF s.thrown THEN s
  ELSE [s EXCEPT !.rangeMapping =
          [r \in DOMAIN s.rangeMapping \ {range} |-> s.rangeMapping[r]]]

\* ArrayMapping.getArray: the array vertex registered for exactly this range
getArray(s, range) == IF range \in DOMAIN s.arrayMapping THEN s.arrayMapping[range] ELSE NoId

\* ArrayMapping.setArray
setArray(s, range, id) ==
  IF s.thrown THEN s
  ELSE [s EXCEPT !.arrayMapping =
          [r \in DOMAIN s.arrayMapping \cup {range} |->
             IF r = range THEN id ELSE s.arrayMapping[r]]]

\* ArrayMapping.removeArray
removeArray(s, range) ==
  IF s.thrown THEN s
  ELSE [s EXCEPT !.arrayMapping =
          [r \in DOMAIN s.arrayMapping \ {range} |-> s.arrayMapping[r]]]

\* RangeMapping.findSmallerRange: the vertex of the range with the same start
\* and width and one row less, with the last row as the rest; the whole range
\* as the rest when there is none or the range is not finite.
\* (fixRangesWhenAddingRows builds exactly these height() - 1 prefixes until
\* the search succeeds.)
findSmallerRange(s, range) ==
  LET rowLess == AbsoluteCellRange(range.start,
                   simpleCellAddress(range.end.sheet, range.end.col, range.end.row - 1))
  IN  IF height(range) > 1 /\ isFinite(range) /\ getRange(s, rowLess) # NoId
      THEN [smallerRangeVertex |-> getRange(s, rowLess),
            restRange |-> AbsoluteCellRange(
                simpleCellAddress(range.start.sheet, range.start.col, range.end.row),
                range.end)]
      ELSE [smallerRangeVertex |-> NoId, restRange |-> range]

-----------------------------------------------------------------------------
(* NamedExpressions: the workbook store of the reserved virtual sheet *)

InternalNamedExpression(displayName, address, added) ==
  [displayName |-> displayName, address |-> address, added |-> added]

\* NamedExpressions.nextAddress, before the row counter is incremented
nextAddress(s) ==
  simpleCellAddress(SHEET_FOR_WORKBOOK_EXPRESSIONS, 0, s.nextNamedExpressionRow)

\* WorkbookStore.get
workbookStoreGet(s, expressionName) ==
  IF toLowerCase(expressionName) \in DOMAIN s.workbookStore
  THEN s.workbookStore[toLowerCase(expressionName)]
  ELSE InternalNamedExpression(expressionName, NoAddress, FALSE)

workbookStoreHas(s, expressionName) == toLowerCase(expressionName) \in DOMAIN s.workbookStore

\* NamedExpressions.workbookNamedExpressionOrPlaceholder: the state after the
\* call; the expression it returns is then workbookStoreGet of that state.
\* (namedExpressionOrPlaceholder looks in the sheet's own store first; the
\* sheets of the model hold no sheet-scoped names.)
workbookNamedExpressionOrPlaceholder(s, expressionName) ==
  IF s.thrown \/ workbookStoreHas(s, expressionName) THEN s
  ELSE [s EXCEPT
          !.workbookStore = (toLowerCase(expressionName) :>
                               InternalNamedExpression(expressionName, nextAddress(s), FALSE))
                            @@ s.workbookStore,
          !.nextNamedExpressionRow = s.nextNamedExpressionRow + 1]

\* the mapping of the store of a scope: workbookStore, or worksheetStore(sheetId),
\* which is undefined when the sheet has no store
storeMapping(s, sheetId) ==
  IF sheetId = NoSheet THEN s.workbookStore
  ELSE IF sheetId \in DOMAIN s.worksheetStores THEN s.worksheetStores[sheetId]
  ELSE <<>>

\* store.has
storeHas(s, sheetId, expressionName) ==
  toLowerCase(expressionName) \in DOMAIN storeMapping(s, sheetId)

\* store.get of a name that the store has
storeGet(s, sheetId, expressionName) == storeMapping(s, sheetId)[toLowerCase(expressionName)]

\* store.add: mapping.set under the normalized name
storeAdd(s, sheetId, namedExpression) ==
  LET mapping == (toLowerCase(namedExpression.displayName) :> namedExpression)
                   @@ storeMapping(s, sheetId)
  IN  IF sheetId = NoSheet THEN [s EXCEPT !.workbookStore = mapping]
      ELSE [s EXCEPT !.worksheetStores = (sheetId :> mapping) @@ s.worksheetStores]

\* worksheetStoreOrCreate
worksheetStoreOrCreate(s, sheetId) ==
  IF sheetId = NoSheet \/ sheetId \in DOMAIN s.worksheetStores THEN s
  ELSE [s EXCEPT !.worksheetStores = (sheetId :> <<>>) @@ s.worksheetStores]

\* addressCache.set(namedExpression.address.row, namedExpression)
addressCacheSet(s, namedExpression) ==
  [s EXCEPT !.addressCache = (namedExpression.address.row :> namedExpression) @@ s.addressCache]

\* addNamedExpression that hands out the address of an entry that is there
\* to a new entry under the name
addNamedExpressionReusingAddress(s, expressionName, sheetId) ==
  LET s1 == worksheetStoreOrCreate(s, sheetId)
      taken == { storeMapping(s1, NoSheet)[n].address : n \in DOMAIN storeMapping(s1, NoSheet) }
      address == IF taken = {} THEN nextAddress(s1) ELSE CHOOSE a \in taken : TRUE
      namedExpression == InternalNamedExpression(expressionName, address, TRUE)
  IN  addressCacheSet(storeAdd(s1, sheetId, namedExpression), namedExpression)

\* a faulty variant: a new expression with a new address is stored whether or
\* not the store has an entry for the name
addNamedExpressionAnew(s, expressionName, sheetId) ==
  LET s1 == worksheetStoreOrCreate(s, sheetId)
      namedExpression == InternalNamedExpression(expressionName, nextAddress(s1), TRUE)
      s2 == [s1 EXCEPT !.nextNamedExpressionRow = s1.nextNamedExpressionRow + 1]
  IN  IF s.thrown THEN s
      ELSE addressCacheSet(storeAdd(s2, sheetId, namedExpression), namedExpression)

\* NamedExpressions.addNamedExpression: the state after the call (the options
\* of a named expression are not part of the model)
addNamedExpression(s, expressionName, sheetId) ==
  LET s1 == worksheetStoreOrCreate(s, sheetId)
      namedExpression ==
        IF storeHas(s1, sheetId, expressionName)
        THEN [storeGet(s1, sheetId, expressionName) EXCEPT
                !.added = TRUE, !.displayName = expressionName]
        ELSE InternalNamedExpression(expressionName, nextAddress(s1), TRUE)
      s2 == IF storeHas(s1, sheetId, expressionName) THEN s1
            ELSE [s1 EXCEPT !.nextNamedExpressionRow = s1.nextNamedExpressionRow + 1]
  IN  IF s.thrown THEN s
      ELSE addressCacheSet(storeAdd(s2, sheetId, namedExpression), namedExpression)

\* NamedExpressions.restoreNamedExpression
restoreNamedExpression(s, namedExpression, sheetId) ==
  LET restored == [namedExpression EXCEPT !.added = TRUE]
  IN  IF s.thrown THEN s
      ELSE addressCacheSet(storeAdd(worksheetStoreOrCreate(s, sheetId), sheetId, restored),
                           restored)

\* NamedExpressions.namedExpressionOrPlaceholder: the state after the call
namedExpressionOrPlaceholder(s, expressionName, sheetId) ==
  LET s1 == worksheetStoreOrCreate(s, sheetId)
  IN  IF s.thrown THEN s
      ELSE IF storeHas(s1, sheetId, expressionName) THEN s1
      ELSE workbookNamedExpressionOrPlaceholder(s1, expressionName)

\* the expression that namedExpressionOrPlaceholder returns in the state
\* after the call
namedExpressionOrPlaceholderResult(s, expressionName, sheetId) ==
  IF storeHas(s, sheetId, expressionName) THEN storeGet(s, sheetId, expressionName)
  ELSE storeGet(s, NoSheet, expressionName)

\* a store.remove that deletes the entry of either store
storeDelete(s, sheetId, expressionName) ==
  LET mapping == storeMapping(s, sheetId)
      rest == [n \in DOMAIN mapping \ {toLowerCase(expressionName)} |-> mapping[n]]
  IN  IF sheetId = NoSheet THEN [s EXCEPT !.workbookStore = rest]
      ELSE [s EXCEPT !.worksheetStores = (sheetId :> rest) @@ s.worksheetStores]

\* store.remove: WorkbookStore.remove keeps the entry with added = false,
\* WorksheetStore.remove deletes it
storeRemove(s, sheetId, expressionName) ==
  IF ~storeHas(s, sheetId, expressionName) THEN s
  ELSE IF sheetId = NoSheet
  THEN [s EXCEPT !.workbookStore[toLowerCase(expressionName)].added = FALSE]
  ELSE LET mapping == storeMapping(s, sheetId)
           rest == [n \in DOMAIN mapping \ {toLowerCase(expressionName)} |-> mapping[n]]
       IN  [s EXCEPT !.worksheetStores = (sheetId :> rest) @@ s.worksheetStores]

\* NamedExpressions.remove
remove(s, expressionName, sheetId) ==
  LET namedExpression == storeGet(s, sheetId, expressionName)
      s1 == storeRemove(s, sheetId, expressionName)
      s2 == IF sheetId # NoSheet /\ DOMAIN storeMapping(s1, sheetId) = {}
            THEN [s1 EXCEPT !.worksheetStores =
                    [i \in DOMAIN s1.worksheetStores \ {sheetId} |-> s1.worksheetStores[i]]]
            ELSE s1
  IN  IF s.thrown THEN s
      ELSE IF (sheetId # NoSheet /\ sheetId \notin DOMAIN s.worksheetStores)
                \/ ~storeHas(s, sheetId, expressionName)
                \/ ~namedExpression.added
      THEN throw(s)
      ELSE [s2 EXCEPT !.addressCache =
              [r \in DOMAIN s2.addressCache \ {namedExpression.address.row} |->
                 s2.addressCache[r]]]

\* store.getAllNamedExpressions of the store of a scope
storeGetAllNamedExpressions(s, sheetId) ==
  { e \in { storeMapping(s, sheetId)[n] : n \in DOMAIN storeMapping(s, sheetId) } : e.added }

\* NamedExpressions.getAllNamedExpressions, as a set
getAllNamedExpressions(s) ==
  { [expression |-> e, scope |-> NoSheet] : e \in storeGetAllNamedExpressions(s, NoSheet) }
  \cup UNION { { [expression |-> e, scope |-> sheetNum] :
                   e \in storeGetAllNamedExpressions(s, sheetNum) } :
               sheetNum \in DOMAIN s.worksheetStores }

\* WorkbookStore.getExisting returns an expression
hasExisting(s, expressionName) ==
  /\ storeHas(s, NoSheet, expressionName)
  /\ storeGet(s, NoSheet, expressionName).added

\* NamedExpressions.isNameAvailable
isNameAvailable(s, expressionName, sheetId) ==
  IF sheetId = NoSheet
  THEN ~(storeHas(s, NoSheet, expressionName) /\ storeGet(s, NoSheet, expressionName).added)
  ELSE ~storeHas(s, sheetId, expressionName)

-----------------------------------------------------------------------------
(* DependencyGraph: queries *)

\* the cell or range vertex a resolved dependency of a formula stands for:
\* rangeMapping.fetchRange / addressMapping.fetchCell, NoId where they throw
dependencyVertex(s, dependency) ==
  CASE dependency.dep = "CellRange" -> getRange(s, dependency.range)
    [] dependency.dep = "NamedExpression" ->
         getCell(s, workbookStoreGet(s, dependency.name).address)
    [] OTHER -> getCell(s, dependency.address)

dependencyAddress(s, dependency) ==
  CASE dependency.dep = "CellRange" -> dependency.range.start
    [] dependency.dep = "NamedExpression" -> workbookStoreGet(s, dependency.name).address
    [] OTHER -> dependency.address

\* formulaDependencyQuery: the resolved dependencies of a formula vertex
formulaDependencyQuery(vertex) ==
  absolutizeDependencies(collectDependencies(vertex.ast), vertex.address)

\* rangeDependencyQuery: the smaller range when its edge exists, with the
\* rest range; else every cell of the range that has a vertex
rangeDependencyQuery(s, id) ==
  LET range == s.nodes[id].range
      withCells(cells) ==
        { <<a, getCell(s, a)>> : a \in { c \in cells : getCell(s, c) # NoId } }
      query(find) ==
        IF find.smallerRangeVertex # NoId /\ id \in adjacentNodes(s, find.smallerRangeVertex)
        THEN {<<range.start, find.smallerRangeVertex>>}
               \cup withCells(rangeAddresses(s, find.restRange))
        ELSE withCells(rangeAddresses(s, range))
  IN  query(findSmallerRange(s, range))

\* dependencyQueryVertices: pairs <<address, vertex id>>
dependencyQueryVertices(s, id) ==
  LET vertex == s.nodes[id]
  IN  IF vertex.kind = "Range" THEN rangeDependencyQuery(s, id)
      ELSE IF isFormulaVertex(vertex)
        THEN LET deps == formulaDependencyQuery(vertex)
             IN  { <<dependencyAddress(s, deps[i]), dependencyVertex(s, deps[i])>> :
                     i \in 1..Len(deps) }
      ELSE {}

\* fetchRange or fetchCell throws inside the dependency query
dependencyQueryThrows(s, id) ==
  \E d \in dependencyQueryVertices(s, id) : d[2] = NoId

\* Graph.removeNode with the graph's dependency query
removeNode(s, id) ==
  IF s.thrown THEN s
  ELSE IF ~hasNode(s, id) \/ dependencyQueryThrows(s, id) THEN throw(s)
  ELSE graphRemoveNode(s, id, dependencyQueryVertices(s, id))

-----------------------------------------------------------------------------
(* DependencyGraph: removing and exchanging vertices *)

RECURSIVE cleanupDependencies(_, _)

\* the loop of removeVertexAndCleanupDependencies over the pending
\* dependencies: a range or an empty cell left without dependents goes too
cleanupDependencies(s, dependencies) ==
  IF s.thrown \/ dependencies = {} THEN s
  ELSE LET dependency == CHOOSE d \in dependencies : TRUE
           rest == dependencies \ {dependency}
           address == dependency[1]
           id == dependency[2]
           \* the vertex has left the graph: its range or its cell goes too
           forgotten(s1) == IF s.nodes[id].kind = "Range"
                            THEN removeRange(s1, s.nodes[id].range)
                            ELSE removeCell(s1, address)
       IN  IF hasNode(s, id) /\ adjacentNodesCount(s, id) = 0
                /\ s.nodes[id].kind \in {"Range", "Empty"}
           THEN cleanupDependencies(forgotten(removeNode(s, id)),
                                    IF s.nodes[id].kind = "Range"
                                    THEN rest \cup dependencyQueryVertices(s, id)
                                    ELSE rest)
           ELSE cleanupDependencies(s, rest)

\* a faulty variant: the vertex goes, its dependencies are not looked at
removeVertexWithoutCleanup(s, id) == removeNode(s, id)

removeVertexAndCleanupDependencies(s, id) ==
  IF s.thrown THEN s
  ELSE IF ~hasNode(s, id) \/ dependencyQueryThrows(s, id) THEN throw(s)
  ELSE cleanupDependencies(removeNode(s, id), dependencyQueryVertices(s, id))

removeVertex(s, id) ==
  IF s.thrown THEN s
  ELSE IF ~hasNode(s, id) THEN throw(s)
  ELSE LET vertex == s.nodes[id]
           removed(s1) == IF vertex.kind = "Range" THEN removeRange(s1, vertex.range) ELSE s1
       IN  removed(removeVertexAndCleanupDependencies(s, id))

RECURSIVE addEdgesFrom(_, _, _)

\* adjNodesStored.forEach: an edge to every stored dependent still in the graph
addEdgesFrom(s, from, targets) ==
  IF s.thrown \/ targets = {} THEN s
  ELSE LET t == CHOOSE x \in targets : TRUE
       IN  addEdgesFrom(IF hasNode(s, t) THEN addEdge(s, from, t) ELSE s,
                        from, targets \ {t})

\* a faulty variant: the stored dependents get no edge from the new vertex
exchangeGraphNodeWithoutEdges(s, oldNode, newNode, newVertex) ==
  removeVertex(addNode(s, newNode, newVertex), oldNode)

exchangeGraphNode(s, oldNode, newNode, newVertex) ==
  LET s1 == addNode(s, newNode, newVertex)
      adjNodesStored == adjacentNodes(s1, oldNode)
  IN  addEdgesFrom(removeVertex(s1, oldNode), newNode, adjNodesStored)

exchangeOrAddGraphNode(s, oldNode, newNode, newVertex) ==
  IF oldNode # NoId THEN exchangeGraphNode(s, oldNode, newNode, newVertex)
  ELSE addNode(s, newNode, newVertex)

\* fetchCellOrCreateEmpty: the state after the call; the vertex it returns is
\* then getCell of that state
fetchCellOrCreateEmpty(s, address) ==
  IF s.thrown \/ getCell(s, address) # NoId THEN s
  ELSE LET newVertexId == FreshId(s)
       IN  setCell(addNode(s, newVertexId, EmptyCellVertex), address, newVertexId)

\* ArrayVertex.isLeftCorner
isLeftCorner(vertex, address) == address = vertex.address

\* isThereSpaceForArray: no address of the rectangle holds a vertex other than
\* an Empty one or the array itself
isThereSpaceForArray(s, id) ==
  \A address \in rangeAddresses(s, s.nodes[id].range) :
    LET vertexUnderAddress == getCell(s, address)
    IN  \/ vertexUnderAddress = NoId
        \/ vertexUnderAddress = id
        \/ (hasNode(s, vertexUnderAddress) /\ s.nodes[vertexUnderAddress].kind = "Empty")

\* a faulty variant: the cells under the array stay mapped to it
keepAddressMappingUnderArray(s, id) == s

\* cleanAddressMappingUnderArray: the cells of the rectangle that map to the
\* array, the corner apart, are unmapped
cleanAddressMappingUnderArray(s, id) ==
  IF s.thrown THEN s
  ELSE LET unmapped == { address \in rangeAddresses(s, s.nodes[id].range) :
                           getCell(s, address) = id /\ ~isLeftCorner(s.nodes[id], address) }
       IN  [s EXCEPT !.addressMapping =
              [a \in DOMAIN s.addressMapping \ unmapped |-> s.addressMapping[a]]]

\* formulaDirectDependenciesToArray / rangeDirectDependenciesToArray: the
\* addresses inside the array that the dependent vertex reads directly
directDependenciesToArray(s, adjacentVertex, array) ==
  LET vertex == s.nodes[adjacentVertex]
      arrayRange == s.nodes[array].range
  IN  IF isFormulaVertex(vertex)
      THEN LET deps == formulaDependencyQuery(vertex)
           IN  { deps[i].address :
                   i \in { j \in 1..Len(deps) :
                             deps[j].dep = "Address" /\ addressInRange(arrayRange, deps[j].address) } }
      ELSE { address \in rangeAddresses(s, findSmallerRange(s, vertex.range).restRange) :
               addressInRange(arrayRange, address) }

RECURSIVE connectDirectDependencies(_, _, _)

\* for ([address, vertex] of relevantDependencies): the cell is fetched or
\* created, gets an edge to the dependent vertex and becomes dirty
connectDirectDependencies(s, relevantDependencies, adjacentVertex) ==
  IF s.thrown \/ relevantDependencies = {} THEN s
  ELSE LET address == CHOOSE x \in relevantDependencies : TRUE
           s1 == fetchCellOrCreateEmpty(s, address)
           vertex == getCell(s1, address)
       IN  connectDirectDependencies(markNodeAsDirty(addEdge(s1, vertex, adjacentVertex), vertex),
                                     relevantDependencies \ {address}, adjacentVertex)

RECURSIVE shrinkArrayToCornerFrom(_, _, _)

\* the loop of shrinkArrayToCorner over the dependents of the array
shrinkArrayToCornerFrom(s, array, adjacentArrayVertices) ==
  IF s.thrown \/ adjacentArrayVertices = {} THEN s
  ELSE LET adjacentVertex == CHOOSE x \in adjacentArrayVertices : TRUE
           cornerEdge(s1, dependentToCorner) ==
             IF dependentToCorner THEN s1 ELSE removeEdge(s1, array, adjacentVertex)
           connected(relevantDependencies) ==
             cornerEdge(connectDirectDependencies(s, relevantDependencies, adjacentVertex),
                        s.nodes[array].address \in relevantDependencies)
       IN  shrinkArrayToCornerFrom(
             connected(directDependenciesToArray(s, adjacentVertex, array)),
             array, adjacentArrayVertices \ {adjacentVertex})

shrinkArrayToCorner(s, array) ==
  LET s1 == cleanAddressMappingUnderArray(s, array)
      adjacentArrayVertices ==
        { id \in adjacentNodes(s1, array) :
            isFormulaVertex(s1.nodes[id]) \/ s1.nodes[id].kind = "Range" }
  IN  markNodeAsDirty(shrinkArrayToCornerFrom(s1, array, adjacentArrayVertices), array)

\* ArrayVertex.setNoSpace: the array holds Error(Spill)
setNoSpace(s, id) ==
  IF s.thrown THEN s ELSE [s EXCEPT !.nodes[id].value = "Spill"]

\* a faulty variant: the array is shrunk to its corner and not set to no
\* space
shrinkWithoutNoSpace(s, id) ==
  IF ~s.thrown /\ hasNode(s, id) /\ s.nodes[id].kind = "Array"
  THEN shrinkArrayToCorner(s, id)
  ELSE s

setNoSpaceIfArray(s, id) ==
  IF ~s.thrown /\ hasNode(s, id) /\ s.nodes[id].kind = "Array"
  THEN setNoSpace(shrinkArrayToCorner(s, id), id)
  ELSE s

\* shrinkPossibleArrayAndGetCell: the state after the call; the vertex it
\* returns is then getCell of that state
shrinkPossibleArrayAndGetCell(s, address) == setNoSpaceIfArray(s, getCell(s, address))

-----------------------------------------------------------------------------
(* DependencyGraph: installing the dependencies of a formula *)

\* a faulty variant: the edges from the cells stay
keepBruteForceEdges(s, cells, rangeVertexId) == s

RECURSIVE removeBruteForceEdges(_, _, _)

\* for (cellFromRange of range.addresses) removeEdge(fetchCell(cellFromRange), rangeVertexId)
removeBruteForceEdges(s, cells, rangeVertexId) ==
  IF s.thrown \/ cells = {} THEN s
  ELSE LET c == CHOOSE x \in cells : TRUE
       IN  removeBruteForceEdges(
             IF getCell(s, c) = NoId THEN throw(s)
             ELSE removeEdge(s, getCell(s, c), rangeVertexId),
             cells \ {c}, rangeVertexId)

RECURSIVE addAllFromRange(_, _, _)

\* for (cellFromRange of restRange.addresses) addEdge(fetchCellOrCreateEmpty(cellFromRange), rangeVertexId)
addAllFromRange(s, cells, rangeVertexId) ==
  IF s.thrown \/ cells = {} THEN s
  ELSE LET c == CHOOSE x \in cells : TRUE
           s1 == fetchCellOrCreateEmpty(s, c)
       IN  addAllFromRange(addEdge(s1, getCell(s1, c), rangeVertexId),
                           cells \ {c}, rangeVertexId)

RECURSIVE addEdgesToInfiniteRanges(_, _, _)

\* relevantInfiniteRanges.forEach(({ id }) => addEdge(vertexId, id))
addEdgesToInfiniteRanges(s, vertexId, ranges) ==
  IF s.thrown \/ ranges = {} THEN s
  ELSE LET id == CHOOSE x \in ranges : TRUE
       IN  addEdgesToInfiniteRanges(addEdge(s, vertexId, id), vertexId, ranges \ {id})

\* a faulty variant: a touched cell is not connected to the whole-column
\* ranges over it
correctInfiniteRangesDependencySkipped(s, address) == s

\* correctInfiniteRangesDependency
correctInfiniteRangesDependency(s, address) ==
  LET relevantInfiniteRanges ==
        { id \in getInfiniteRanges(s) : addressInRange(s.nodes[id].range, address) }
  IN  IF s.thrown \/ relevantInfiniteRanges = {} THEN s
      ELSE LET s1 == fetchCellOrCreateEmpty(s, address)
           IN  addEdgesToInfiniteRanges(s1, getCell(s1, address), relevantInfiniteRanges)

\* AbsoluteCellRange.intersectionWith: the addresses of the intersection, none
\* when the ranges do not meet
intersectionWith(s, range, other) ==
  { a \in rangeAddresses(s, range) : addressInRange(other, a) }

RECURSIVE correctInfiniteRangesDependenciesByRangeVertexFrom(_, _, _)

correctInfiniteRangesDependenciesByRangeVertexFrom(s, range, infiniteRanges) ==
  IF s.thrown \/ infiniteRanges = {} THEN s
  ELSE LET infiniteRangeVertexId == CHOOSE x \in infiniteRanges : TRUE
           intersection == intersectionWith(s, range, s.nodes[infiniteRangeVertexId].range)
       IN  correctInfiniteRangesDependenciesByRangeVertexFrom(
             addAllFromRange(s, intersection, infiniteRangeVertexId),
             range, infiniteRanges \ {infiniteRangeVertexId})

\* correctInfiniteRangesDependenciesByRangeVertex
correctInfiniteRangesDependenciesByRangeVertex(s, range) ==
  correctInfiniteRangesDependenciesByRangeVertexFrom(s, range, getInfiniteRanges(s))

\* the bruteForce flag of a range vertex
setBruteForce(s, id, flag) ==
  IF s.thrown THEN s ELSE [s EXCEPT !.nodes[id].bruteForce = flag]

\* a faulty variant: the flag is set as in the code, the edge from the
\* smaller range is not added
connectSmallerRangeWithoutEdge(s, range, rangeVertexId, find) ==
  setBruteForce(s, rangeVertexId, find.smallerRangeVertex = NoId)

\* the smaller-range branch of processCellDependencies
connectSmallerRange(s, range, rangeVertexId, find) ==
  IF find.smallerRangeVertex # NoId
  THEN LET s1 == addEdge(s, find.smallerRangeVertex, rangeVertexId)
       IN  IF ~s1.thrown /\ s1.nodes[rangeVertexId].bruteForce
           THEN removeBruteForceEdges(setBruteForce(s1, rangeVertexId, FALSE),
                                      rangeAddresses(s1, range), rangeVertexId)
           ELSE s1
  ELSE setBruteForce(s, rangeVertexId, TRUE)

\* processCellDependencies, the branch of a range dependency
processRangeDependency(s, range, endVertexId) ==
  LET s0 == IF getRange(s, range) = NoId
            THEN LET id == FreshId(s)
                 IN  addNode(setRange(s, range, id), id, RangeVertex(range))
            ELSE s
      rangeVertexId == getRange(s0, range)
      \* the rest range feeds the range vertex: the array that covers it, or
      \* its cells
      restRange(s2, find, array) ==
        IF array # NoId THEN addEdge(s2, array, rangeVertexId)
        ELSE addAllFromRange(s2, rangeAddresses(s2, find.restRange), rangeVertexId)
      smallerRange(s2, find) ==
        addEdge(restRange(s2, find, getArray(s2, find.restRange)), rangeVertexId, endVertexId)
      found(s1, find) == smallerRange(connectSmallerRange(s1, range, rangeVertexId, find), find)
      registered(s1) == found(s1, findSmallerRange(s1, range))
      infiniteRanges(s4) ==
        IF isFinite(range) THEN correctInfiniteRangesDependenciesByRangeVertex(s4, range)
        ELSE s4
  IN  infiniteRanges(registered(IF isFinite(range) THEN s0
                                ELSE markNodeAsInfiniteRange(s0, rangeVertexId)))

\* processCellDependencies, the branch of a named expression
processNamedExpressionDependency(s, name, endVertexId) ==
  LET s1 == workbookNamedExpressionOrPlaceholder(s, name)
      address == workbookStoreGet(s1, name).address
      s2 == fetchCellOrCreateEmpty(s1, address)
  IN  addEdge(s2, getCell(s2, address), endVertexId)

\* a faulty variant: the cell is fetched or created, the edge is not added
processAddressDependencyWithoutEdge(s, address, endVertexId) ==
  fetchCellOrCreateEmpty(s, address)

\* processCellDependencies, the branch of a cell dependency
processAddressDependency(s, address, endVertexId) ==
  LET s1 == fetchCellOrCreateEmpty(s, address)
  IN  addEdge(s1, getCell(s1, address), endVertexId)

RECURSIVE processCellDependenciesFrom(_, _, _, _)

processCellDependenciesFrom(s, cellDependencies, i, endVertexId) ==
  IF s.thrown \/ i > Len(cellDependencies) THEN s
  ELSE LET dep == cellDependencies[i]
       IN  processCellDependenciesFrom(
             CASE dep.dep = "CellRange" -> processRangeDependency(s, dep.range, endVertexId)
               [] dep.dep = "NamedExpression" ->
                    processNamedExpressionDependency(s, dep.name, endVertexId)
               [] OTHER -> processAddressDependency(s, dep.address, endVertexId),
             cellDependencies, i + 1, endVertexId)

processCellDependencies(s, cellDependencies, endVertexId) ==
  processCellDependenciesFrom(s, cellDependencies, 1, endVertexId)

-----------------------------------------------------------------------------
(* DependencyGraph: the cell operations *)

RECURSIVE exchangeOrAddUnderArray(_, _, _, _)

\* the loop of exchangeOrAddFormulaVertex over the cells of the rectangle,
\* the corner apart: the array vertex takes over the dependents of the vertex
\* found there
exchangeOrAddUnderArray(s, cells, newVertexId, vertex) ==
  IF s.thrown \/ cells = {} THEN s
  ELSE LET cellAddress == CHOOSE x \in cells : TRUE
           old == getCell(s, cellAddress)
       IN  exchangeOrAddUnderArray(exchangeOrAddGraphNode(s, old, newVertexId, vertex),
                                   cells \ {cellAddress}, newVertexId, vertex)

RECURSIVE setCells(_, _, _)

\* for (cellAddress of range.addresses) addressMapping.setCell(cellAddress, vertex)
setCells(s, cells, id) ==
  IF s.thrown \/ cells = {} THEN s
  ELSE LET cellAddress == CHOOSE x \in cells : TRUE
       IN  setCells(setCell(s, cellAddress, id), cells \ {cellAddress}, id)

\* exchangeOrAddFormulaVertex; newVertexId is the id the graph hands out for
\* the vertex, after the array at the address, if any, has been shrunk
exchangeOrAddFormulaVertex(s, newVertexId, vertex) ==
  LET address == vertex.address
      range == IF vertex.kind = "Array" THEN vertex.range ELSE spanFrom(address, 1, 1)
      \* the cells under the rectangle, once the corner holds the vertex
      underArray(s2) ==
        IF s2.thrown THEN s2
        ELSE IF vertex.kind = "Array" /\ ~isThereSpaceForArray(s2, newVertexId) THEN s2
        ELSE setCells(exchangeOrAddUnderArray(s2, addresses(range) \ {address},
                                              newVertexId, vertex),
                      addresses(range), newVertexId)
      \* the corner, once the array at the address has been shrunk
      corner(s0) ==
        underArray(setCell(exchangeOrAddGraphNode(
                             IF vertex.kind = "Array" THEN setArray(s0, range, newVertexId) ELSE s0,
                             getCell(s0, address), newVertexId, vertex),
                           address, newVertexId))
  IN  corner(shrinkPossibleArrayAndGetCell(s, address))

\* a faulty variant: the vertex is not put on the volatile list
markAsVolatileDropped(s, id) == s

markAsVolatile(s, id) == markNodeAsVolatile(s, id)

\* a faulty variant: the vertex is not registered as depending on the
\* structure of the sheet
markAsDependentOnStructureChangeDropped(s, id) == s

markAsDependentOnStructureChange(s, id) == markNodeAsChangingWithStructure(s, id)

setFormulaToCell(s, address, ast, dependencies, size, hasVolatileFunction, hasStructuralChangeFunction) ==
  LET newVertexId == FreshId(shrinkPossibleArrayAndGetCell(s, address))
      volatile(s3) == IF hasVolatileFunction THEN markAsVolatile(s3, newVertexId) ELSE s3
      structural(s4) == IF hasStructuralChangeFunction
                        THEN markAsDependentOnStructureChange(s4, newVertexId) ELSE s4
  IN  correctInfiniteRangesDependency(
        structural(volatile(markNodeAsDirty(
          processCellDependencies(
            exchangeOrAddFormulaVertex(s, newVertexId, fromAst(ast, address, size)),
            dependencies, newVertexId),
          newVertexId))),
        address)

setParsingErrorToCell(s, address) ==
  LET exchanged(s0) ==
        LET vertex == getCell(s0, address)
            errorVertexId == FreshId(s0)
        IN  markNodeAsDirty(
              setCell(exchangeOrAddGraphNode(s0, vertex, errorVertexId, ParsingErrorVertex),
                      address, errorVertexId),
              errorVertexId)
  IN  correctInfiniteRangesDependency(
        exchanged(shrinkPossibleArrayAndGetCell(s, address)), address)

\* ValueCellVertex.setValues
setValues(s, id, rawValue) ==
  IF s.thrown THEN s ELSE [s EXCEPT !.nodes[id].rawValue = rawValue]

setValueToCell(s, address, rawValue) ==
  LET written(s00, vertex) ==
        IF vertex # NoId /\ s00.nodes[vertex].kind = "Value"
        THEN IF s00.nodes[vertex].rawValue # rawValue
             THEN markNodeAsDirty(setValues(s00, vertex, rawValue), vertex)
             ELSE s00
        ELSE LET newVertexId == FreshId(s00)
             IN  markNodeAsDirty(
                   setCell(exchangeOrAddGraphNode(s00, vertex, newVertexId,
                                                  ValueCellVertex(rawValue)),
                           address, newVertexId),
                   newVertexId)
      withoutArray(s0, vertex) ==
        written(IF vertex # NoId /\ s0.nodes[vertex].kind = "Array"
                THEN removeArray(s0, s0.nodes[vertex].range) ELSE s0,
                vertex)
      shrunk(s0) == withoutArray(s0, getCell(s0, address))
  IN  correctInfiniteRangesDependency(
        shrunk(shrinkPossibleArrayAndGetCell(s, address)), address)

\* a faulty variant: the placeholder stays even without a dependent
setCellEmptyKeepingPlaceholder(s, address) ==
  LET emptied(s0, vertex) ==
        IF vertex = NoId THEN s0
        ELSE IF Cardinality(adjacentNodes(s0, vertex)) > 0
          THEN setCell(markNodeAsDirty(exchangeGraphNode(s0, vertex, FreshId(s0), EmptyCellVertex),
                                       FreshId(s0)),
                       address, FreshId(s0))
        ELSE removeCell(removeVertex(s0, vertex), address)
      shrunk(s0) == emptied(s0, getCell(s0, address))
  IN  shrunk(shrinkPossibleArrayAndGetCell(s, address))

setCellEmpty(s, address) ==
  LET placed(s1, emptyVertex) ==
        IF s1.thrown THEN s1
        ELSE IF adjacentNodesCount(s1, emptyVertex) = 0
          THEN removeCell(removeVertex(s1, emptyVertex), address)
          ELSE setCell(markNodeAsDirty(s1, emptyVertex), address, emptyVertex)
      emptied(s0, vertex) ==
        IF vertex = NoId THEN s0
        ELSE IF Cardinality(adjacentNodes(s0, vertex)) > 0
          THEN placed(exchangeGraphNode(s0, vertex, FreshId(s0), EmptyCellVertex), FreshId(s0))
        ELSE removeCell(removeVertex(s0, vertex), address)
      shrunk(s0) == emptied(s0, getCell(s0, address))
  IN  shrunk(shrinkPossibleArrayAndGetCell(s, address))

clearDirtyVertices(s) == clearDirtyNodes(s)

-----------------------------------------------------------------------------
(* DependencyGraph: structural edits *)

\* Graph.markChangingWithStructureNodesAsDirty
markChangingWithStructureNodesAsDirty(s) ==
  IF s.thrown THEN s
  ELSE [s EXCEPT !.dirty = s.dirty \cup (s.changingWithStructure \cap DOMAIN s.nodes)]

\* a faulty variant: the vertices that depend on the structure stay as they are
addStructuralNodesToChangeSetSkipped(s) == s

addStructuralNodesToChangeSet(s) == markChangingWithStructureNodesAsDirty(s)

\* a row moved down by numberOfRows; the last row of a whole column stays
shiftedRow(r, numberOfRows) == IF r = Infinity THEN Infinity ELSE r + numberOfRows

\* where the cell at `address` is after numberOfRows rows were added at `row`
addressAfterAddingRows(address, sheet, row, numberOfRows) ==
  IF address.sheet = sheet /\ address.row >= row
  THEN simpleCellAddress(address.sheet, address.col, shiftedRow(address.row, numberOfRows))
  ELSE address

\* AddressMapping.addRows: the cells from `row` on move down
addressMappingAddRows(s, sheet, row, numberOfRows) ==
  IF s.thrown THEN s
  ELSE LET moved(a) == addressAfterAddingRows(a, sheet, row, numberOfRows)
       IN  [s EXCEPT !.addressMapping =
              [a \in { moved(k) : k \in DOMAIN s.addressMapping } |->
                 s.addressMapping[CHOOSE k \in DOMAIN s.addressMapping : moved(k) = a]]]

\* the range of a range vertex after rows were added: shifted when it starts
\* at or below `row`, expanded when `row` is inside it
rangeAfterAddingRows(range, sheet, row, numberOfRows) ==
  IF range.start.sheet # sheet THEN range
  ELSE IF row <= range.start.row
    THEN AbsoluteCellRange(
           simpleCellAddress(sheet, range.start.col, shiftedRow(range.start.row, numberOfRows)),
           simpleCellAddress(sheet, range.end.col, shiftedRow(range.end.row, numberOfRows)))
  ELSE IF row <= range.end.row
    THEN AbsoluteCellRange(range.start,
           simpleCellAddress(sheet, range.end.col, shiftedRow(range.end.row, numberOfRows)))
  ELSE range

\* RangeMapping.moveAllRangesInSheetAfterRowByRows: the ranges of the range
\* vertices change in place and the mapping is keyed again
moveAllRangesInSheetAfterRowByRows(s, sheet, row, numberOfRows) ==
  IF s.thrown THEN s
  ELSE LET moved(r) == rangeAfterAddingRows(r, sheet, row, numberOfRows)
           ids == { s.rangeMapping[k] : k \in DOMAIN s.rangeMapping }
       IN  [s EXCEPT
              !.rangeMapping =
                [r \in { moved(k) : k \in DOMAIN s.rangeMapping } |->
                   s.rangeMapping[CHOOSE k \in DOMAIN s.rangeMapping : moved(k) = r]],
              !.nodes =
                [id \in DOMAIN s.nodes |->
                   IF id \in ids THEN [s.nodes[id] EXCEPT !.range = moved(s.nodes[id].range)]
                   ELSE s.nodes[id]]]

\* AbsoluteCellRange.includesRow
includesRow(range, row) == range.start.row < row /\ range.end.row >= row

\* AbsoluteCellRange.rangeWithSameWidth
rangeWithSameWidth(range, startRow, numberOfRows) ==
  AbsoluteCellRange(simpleCellAddress(range.start.sheet, range.start.col, startRow),
                    simpleCellAddress(range.start.sheet, range.end.col,
                                      startRow + numberOfRows - 1))

RECURSIVE fixHierarchicalRange(_, _, _)

\* the hierarchical branch of fixRangesWhenAddingRows: ranges one row shorter
\* are built below currentRangeVertex until one has a smaller range in the
\* mapping, which then feeds the last one built and no longer rangeVertex
fixHierarchicalRange(s, rangeVertex, currentRangeVertex) ==
  IF s.thrown THEN s
  ELSE LET range == s.nodes[currentRangeVertex].range
           find == findSmallerRange(s, range)
       IN  IF find.smallerRangeVertex # NoId
           THEN removeEdge(
                  addAllFromRange(addEdge(s, find.smallerRangeVertex, currentRangeVertex),
                                  rangeAddresses(s, find.restRange), currentRangeVertex),
                  find.smallerRangeVertex, rangeVertex)
           ELSE IF height(range) <= 1 THEN throw(s)
           ELSE LET newRange == spanFrom(range.start, width(range), height(range) - 1)
                    newRangeVertex == FreshId(s)
                    s1 == addNode(setRange(s, newRange, newRangeVertex), newRangeVertex,
                                  RangeVertex(newRange))
                    restRange == AbsoluteCellRange(
                                   simpleCellAddress(range.start.sheet, range.start.col,
                                                     range.end.row),
                                   range.end)
                    s2 == addAllFromRange(s1, rangeAddresses(s1, restRange), currentRangeVertex)
                    s3 == addEdge(s2, newRangeVertex, currentRangeVertex)
                IN  fixHierarchicalRange(s3, rangeVertex, newRangeVertex)

\* a faulty variant: a range around the added rows is left as it is
keepRangeWhenAddingRows(s, rangeVertex, row, numberOfRows) == s

\* the body of the loop of fixRangesWhenAddingRows for one range vertex
fixRangeWhenAddingRows(s, rangeVertex, row, numberOfRows) ==
  IF s.thrown \/ ~hasNode(s, rangeVertex) THEN s
  ELSE LET range == s.nodes[rangeVertex].range
       IN  IF ~includesRow(range, row + numberOfRows) THEN s
           ELSE IF s.nodes[rangeVertex].bruteForce
             THEN addAllFromRange(s, rangeAddresses(s, rangeWithSameWidth(range, row, numberOfRows)),
                                  rangeVertex)
           ELSE IF findSmallerRange(s, range).smallerRangeVertex # NoId THEN s
           ELSE fixHierarchicalRange(s, rangeVertex, rangeVertex)

RECURSIVE fixRangesWhenAddingRowsFrom(_, _, _, _)

\* the loop of fixRangesWhenAddingRows over the range vertices the sheet had
\* when it started, in the order they were created in
fixRangesWhenAddingRowsFrom(s, originalValues, row, numberOfRows) ==
  IF s.thrown \/ originalValues = {} THEN s
  ELSE LET rangeVertex == CHOOSE x \in originalValues : \A y \in originalValues : x <= y
       IN  fixRangesWhenAddingRowsFrom(fixRangeWhenAddingRows(s, rangeVertex, row, numberOfRows),
                                       originalValues \ {rangeVertex}, row, numberOfRows)

\* the range vertices of a sheet
rangesInSheet(s, sheet) ==
  { s.rangeMapping[r] : r \in { k \in DOMAIN s.rangeMapping : k.start.sheet = sheet } }

fixRangesWhenAddingRows(s, sheet, row, numberOfRows) ==
  fixRangesWhenAddingRowsFrom(s, rangesInSheet(s, sheet), row, numberOfRows)

\* for (vertex of verticesFromRowsSpan(addedRows)) markNodeAsDirty(vertex)
markRowsAsDirty(s, sheet, row, numberOfRows) ==
  IF s.thrown THEN s
  ELSE [s EXCEPT !.dirty = s.dirty \cup
          { s.addressMapping[a] :
              a \in { k \in DOMAIN s.addressMapping :
                        k.sheet = sheet /\ row <= k.row /\ k.row < row + numberOfRows } }]

\* addRows; the sheets it is applied to hold no array, so that
\* fixArraysAfterAddingRow finds none to move
addRows(s, sheet, row, numberOfRows) ==
  LET s1 == addressMappingAddRows(s, sheet, row, numberOfRows)
      s2 == moveAllRangesInSheetAfterRowByRows(s1, sheet, row, numberOfRows)
      s3 == fixRangesWhenAddingRows(s2, sheet, row, numberOfRows)
      s4 == markRowsAsDirty(s3, sheet, row, numberOfRows)
  IN  addStructuralNodesToChangeSet(s4)

\* where the cell at `address` is after columns were added at `column`
addressAfterAddingColumns(address, sheet, column, numberOfColumns) ==
  IF address.sheet = sheet /\ address.col >= column
  THEN simpleCellAddress(address.sheet, address.col + numberOfColumns, address.row)
  ELSE address

\* AddressMapping.addColumns: the cells from `column` on move right
addressMappingAddColumns(s, sheet, column, numberOfColumns) ==
  IF s.thrown THEN s
  ELSE LET moved(a) == addressAfterAddingColumns(a, sheet, column, numberOfColumns)
       IN  [s EXCEPT !.addressMapping =
              [a \in { moved(k) : k \in DOMAIN s.addressMapping } |->
                 s.addressMapping[CHOOSE k \in DOMAIN s.addressMapping : moved(k) = a]]]

\* the body of the loop of fixRangesWhenAddingColumns for one range vertex
fixRangeWhenAddingColumns(s, rangeVertex, sheet, column, numberOfColumns) ==
  LET range == s.nodes[rangeVertex].range
      subrange ==
        IF s.nodes[rangeVertex].bruteForce
        THEN AbsoluteCellRange(simpleCellAddress(sheet, column, range.start.row),
                               simpleCellAddress(sheet, column + numberOfColumns - 1,
                                                 range.end.row))
        ELSE spanFrom(simpleCellAddress(sheet, column, range.end.row), numberOfColumns, 1)
  IN  IF range.start.col < column + numberOfColumns /\ range.end.col >= column + numberOfColumns
      THEN addAllFromRange(s, rangeAddresses(s, subrange), rangeVertex)
      ELSE s

RECURSIVE fixRangesWhenAddingColumnsFrom(_, _, _, _, _)

fixRangesWhenAddingColumnsFrom(s, rangeVertices, sheet, column, numberOfColumns) ==
  IF s.thrown \/ rangeVertices = {} THEN s
  ELSE LET rangeVertex == CHOOSE x \in rangeVertices : \A y \in rangeVertices : x <= y
       IN  fixRangesWhenAddingColumnsFrom(
             fixRangeWhenAddingColumns(s, rangeVertex, sheet, column, numberOfColumns),
             rangeVertices \ {rangeVertex}, sheet, column, numberOfColumns)

\* addColumns at a column right of every range and every array of the sheet:
\* moveAllRangesInSheetAfterColumnByColumns and fixArraysAfterAddingColumn
\* find nothing to move
addColumns(s, sheet, column, numberOfColumns) ==
  LET s1 == addressMappingAddColumns(s, sheet, column, numberOfColumns)
      s2 == fixRangesWhenAddingColumnsFrom(s1, rangesInSheet(s1, sheet), sheet, column,
                                           numberOfColumns)
      s3 == IF s2.thrown THEN s2
            ELSE [s2 EXCEPT !.dirty = s2.dirty \cup
                    { s2.addressMapping[a] :
                        a \in { k \in DOMAIN s2.addressMapping :
                                  k.sheet = sheet /\ column <= k.col
                                    /\ k.col < column + numberOfColumns } }]
  IN  addStructuralNodesToChangeSet(s3)

\* a faulty variant: the loop over the cells of the span is left out
keepVerticesOfSpan(s, entries) == s

RECURSIVE removeVerticesOfSpan(_, _)

\* the first loop of removeRows and of removeColumns over the cells of the
\* removed span: the dependents of each vertex become dirty, the vertex goes
removeVerticesOfSpan(s, entries) ==
  IF s.thrown \/ entries = {} THEN s
  ELSE LET address == CHOOSE x \in entries : TRUE
           vertex == getCell(s, address)
           s1 == [s EXCEPT !.dirty = s.dirty \cup adjacentNodes(s, vertex)]
       IN  removeVerticesOfSpan(IF hasNode(s, vertex) THEN removeVertex(s1, vertex) ELSE s,
                                entries \ {address})

\* AddressMapping.removeRows: the cells of the rows go, those below move up
addressMappingRemoveRows(s, sheet, rowStart, numberOfRows) ==
  IF s.thrown THEN s
  ELSE LET kept == { k \in DOMAIN s.addressMapping :
                       ~(k.sheet = sheet /\ rowStart <= k.row
                           /\ k.row < rowStart + numberOfRows) }
           moved(a) == IF a.sheet = sheet /\ a.row >= rowStart + numberOfRows
                       THEN simpleCellAddress(a.sheet, a.col, a.row - numberOfRows)
                       ELSE a
       IN  [s EXCEPT !.addressMapping =
              [a \in { moved(k) : k \in kept } |->
                 s.addressMapping[CHOOSE k \in kept : moved(k) = a]]]

\* removeRows of rows below every range and every array of the sheet:
\* truncateRanges and fixArraysAfterRemovingRows find nothing to change
removeRows(s, sheet, rowStart, numberOfRows) ==
  LET entries == { k \in DOMAIN s.addressMapping :
                     k.sheet = sheet /\ rowStart <= k.row /\ k.row < rowStart + numberOfRows }
      s1 == removeVerticesOfSpan(s, entries)
      s2 == addressMappingRemoveRows(s1, sheet, rowStart, numberOfRows)
  IN  addStructuralNodesToChangeSet(s2)

\* AddressMapping.removeColumns: the cells of the columns go, those to the
\* right move left
addressMappingRemoveColumns(s, sheet, columnStart, numberOfColumns) ==
  IF s.thrown THEN s
  ELSE LET kept == { k \in DOMAIN s.addressMapping :
                       ~(k.sheet = sheet /\ columnStart <= k.col
                           /\ k.col < columnStart + numberOfColumns) }
           moved(a) == IF a.sheet = sheet /\ a.col >= columnStart + numberOfColumns
                       THEN simpleCellAddress(a.sheet, a.col - numberOfColumns, a.row)
                       ELSE a
       IN  [s EXCEPT !.addressMapping =
              [a \in { moved(k) : k \in kept } |->
                 s.addressMapping[CHOOSE k \in kept : moved(k) = a]]]

\* removeColumns of columns right of every range and every array of the
\* sheet: truncateRanges and fixArraysAfterRemovingColumns find nothing to
\* change
removeColumns(s, sheet, columnStart, numberOfColumns) ==
  LET entries == { k \in DOMAIN s.addressMapping :
                     k.sheet = sheet /\ columnStart <= k.col
                       /\ k.col < columnStart + numberOfColumns }
      s1 == removeVerticesOfSpan(s, entries)
      s2 == addressMappingRemoveColumns(s1, sheet, columnStart, numberOfColumns)
  IN  addStructuralNodesToChangeSet(s2)

RECURSIVE setCellsEmpty(_, _)

\* the loop of clearSheet over the cells of the sheet, none of them under an
\* array
setCellsEmpty(s, entries) ==
  IF s.thrown \/ entries = {} THEN s
  ELSE LET address == CHOOSE x \in entries : TRUE
       IN  setCellsEmpty(setCellEmpty(s, address), entries \ {address})

\* the cells of a sheet
sheetEntries(s, sheet) == { k \in DOMAIN s.addressMapping : k.sheet = sheet }

clearSheet(s, sheetId) ==
  addStructuralNodesToChangeSet(setCellsEmpty(s, sheetEntries(s, sheetId)))

RECURSIVE removeEntries(_, _)

\* the loop of removeSheet over the cells that clearSheet left
removeEntries(s, entries) ==
  IF s.thrown \/ entries = {} THEN s
  ELSE LET adr == CHOOSE x \in entries : TRUE
           vertex == getCell(s, adr)
           s1 == [s EXCEPT !.dirty = s.dirty \cup adjacentNodes(s, vertex)]
       IN  removeEntries(removeCell(removeVertex(s1, vertex), adr), entries \ {adr})

RECURSIVE removeRangeVertices(_, _)

\* for (range of rangesToRemove) removeVertex(range)
removeRangeVertices(s, rangesToRemove) ==
  IF s.thrown \/ rangesToRemove = {} THEN s
  ELSE LET range == CHOOSE x \in rangesToRemove : TRUE
       IN  removeRangeVertices(removeVertex(s, range), rangesToRemove \ {range})

\* RangeMapping.removeRangesInSheet: the mapping without the ranges of the
\* sheet
removeRangesInSheet(s, sheet) ==
  IF s.thrown THEN s
  ELSE [s EXCEPT !.rangeMapping =
          [r \in { k \in DOMAIN s.rangeMapping : k.start.sheet # sheet } |-> s.rangeMapping[r]]]

removeSheet(s, removedSheetId) ==
  LET \* the ranges of the sheet leave the mapping, then the graph
      withoutRanges(s2) ==
        removeRangeVertices(removeRangesInSheet(s2, removedSheetId),
                            rangesInSheet(s2, removedSheetId))
      \* the cells that clearSheet left are removed with their vertices
      withoutEntries(s1) == withoutRanges(removeEntries(s1, sheetEntries(s1, removedSheetId)))
  IN  withoutEntries(clearSheet(s, removedSheetId))

\* a reference of a formula at oldAddress, as the formula at newAddress
\* writes it once the cell it names has moved
referenceAfterAddingRows(ref, oldAddress, newAddress, row, numberOfRows) ==
  LET target == addressAfterAddingRows(toSimpleCellAddress(ref, oldAddress),
                                       oldAddress.sheet, row, numberOfRows)
  IN  [sheet |-> ref.sheet,
       col |-> IF ref.colAbs THEN target.col ELSE target.col - newAddress.col,
       row |-> IF ref.rowAbs THEN target.row ELSE target.row - newAddress.row,
       colAbs |-> ref.colAbs, rowAbs |-> ref.rowAbs]

RECURSIVE astAfterAddingRows(_, _, _, _, _)

\* AddRowsTransformer on the AST of a formula
astAfterAddingRows(ast, oldAddress, newAddress, row, numberOfRows) ==
  LET moved(ref) == referenceAfterAddingRows(ref, oldAddress, newAddress, row, numberOfRows)
  IN  CASE ast.type = "CELL_REFERENCE" -> [ast EXCEPT !.reference = moved(ast.reference)]
        [] ast.type = "CELL_RANGE" ->
             [ast EXCEPT !.start = moved(ast.start), !.end = moved(ast.end)]
        [] ast.type = "PLUS_OP" ->
             [ast EXCEPT
                !.left = astAfterAddingRows(ast.left, oldAddress, newAddress, row, numberOfRows),
                !.right = astAfterAddingRows(ast.right, oldAddress, newAddress, row, numberOfRows)]
        [] ast.type = "FUNCTION_CALL" ->
             [ast EXCEPT !.args =
                [i \in 1..Len(ast.args) |->
                   astAfterAddingRows(ast.args[i], oldAddress, newAddress, row, numberOfRows)]]
        [] OTHER -> ast

\* LazilyTransformingAstService with an AddRowsTransformer: the address and
\* the AST that every formula vertex of the sheet then answers with
transformAddedRows(s, sheet, row, numberOfRows) ==
  IF s.thrown THEN s
  ELSE [s EXCEPT !.nodes =
          [id \in DOMAIN s.nodes |->
             LET vertex == s.nodes[id]
                 newAddress == addressAfterAddingRows(vertex.address, sheet, row, numberOfRows)
             IN  IF isFormulaVertex(vertex) /\ vertex.address.sheet = sheet
                 THEN [vertex EXCEPT
                         !.address = newAddress,
                         !.ast = astAfterAddingRows(vertex.ast, vertex.address, newAddress,
                                                    row, numberOfRows)]
                 ELSE vertex]]

verticesToRecompute(s) == getDirtyAndVolatileNodes(s)

-----------------------------------------------------------------------------
(* Reversed ranges (ParserWithCaching.convertReversedRangesToRegularRanges) *)

\* ParserWithCaching.compareSheetIds: a sheet that is undefined counts as
\* Infinity; the difference of two undefined sheets is NaN, which the sort
\* takes as 0
compareSheetIds(sheetA, sheetB) ==
  LET a == IF sheetA = NoSheet THEN Infinity ELSE sheetA
      b == IF sheetB = NoSheet THEN Infinity ELSE sheetB
  IN  IF sheetA = NoSheet /\ sheetB = NoSheet THEN 0 ELSE a - b

\* [endA, endB].sort(compare): the sort is stable, so the two swap only when
\* endA compares above endB
sortEnds(endA, endB, compared) ==
  IF compared > 0 THEN <<endB, endA>> ELSE <<endA, endB>>

\* a faulty variant: the ends stay as they were written
keepCellRangeEnds(endA, endB, formulaAddress) == [start |-> endA, end |-> endB]

\* ParserWithCaching.orderCellRangeEnds: columns, rows and sheets are each
\* sorted, columns and rows by the absolute coordinate they resolve to at
\* formulaAddress
orderCellRangeEnds(endA, endB, formulaAddress) ==
  LET absA == toSimpleCellAddress(endA, formulaAddress)
      absB == toSimpleCellAddress(endB, formulaAddress)
      cols == sortEnds(endA, endB, absA.col - absB.col)
      rows == sortEnds(endA, endB, absA.row - absB.row)
      sheets == sortEnds(endA.sheet, endB.sheet, compareSheetIds(endA.sheet, endB.sheet))
  IN  [start |-> [sheet |-> sheets[1], col |-> cols[1].col, colAbs |-> cols[1].colAbs,
                  row |-> rows[1].row, rowAbs |-> rows[1].rowAbs],
       end |-> [sheet |-> sheets[2], col |-> cols[2].col, colAbs |-> cols[2].colAbs,
                row |-> rows[2].row, rowAbs |-> rows[2].rowAbs]]

\* ParserWithCaching.orderColumnRangeEnds
orderColumnRangeEnds(endA, endB, formulaAddress) ==
  LET cols == sortEnds(endA, endB, toSimpleColumnAddress(endA, formulaAddress).col
                                     - toSimpleColumnAddress(endB, formulaAddress).col)
      sheets == sortEnds(endA.sheet, endB.sheet, compareSheetIds(endA.sheet, endB.sheet))
  IN  [start |-> [sheet |-> sheets[1], col |-> cols[1].col, colAbs |-> cols[1].colAbs],
       end |-> [sheet |-> sheets[2], col |-> cols[2].col, colAbs |-> cols[2].colAbs]]

\* ParserWithCaching.orderRowRangeEnds
orderRowRangeEnds(endA, endB, formulaAddress) ==
  LET rows == sortEnds(endA, endB, toSimpleRowAddress(endA, formulaAddress).row
                                     - toSimpleRowAddress(endB, formulaAddress).row)
      sheets == sortEnds(endA.sheet, endB.sheet, compareSheetIds(endA.sheet, endB.sheet))
  IN  [start |-> [sheet |-> sheets[1], row |-> rows[1].row, rowAbs |-> rows[1].rowAbs],
       end |-> [sheet |-> sheets[2], row |-> rows[2].row, rowAbs |-> rows[2].rowAbs]]

RECURSIVE convertReversedRangesToRegularRanges(_, _)

convertReversedRangesToRegularRanges(ast, formulaAddress) ==
  CASE ast.type = "CELL_RANGE" ->
         LET orderedEnds == orderCellRangeEnds(ast.start, ast.end, formulaAddress)
         IN  [ast EXCEPT !.start = orderedEnds.start, !.end = orderedEnds.end]
    [] ast.type = "COLUMN_RANGE" ->
         LET orderedEnds == orderColumnRangeEnds(ast.start, ast.end, formulaAddress)
         IN  [ast EXCEPT !.start = orderedEnds.start, !.end = orderedEnds.end]
    [] ast.type = "ROW_RANGE" ->
         LET orderedEnds == orderRowRangeEnds(ast.start, ast.end, formulaAddress)
         IN  [ast EXCEPT !.start = orderedEnds.start, !.end = orderedEnds.end]
    [] ast.type = "PLUS_OP" ->
         [ast EXCEPT !.left = convertReversedRangesToRegularRanges(ast.left, formulaAddress),
                     !.right = convertReversedRangesToRegularRanges(ast.right, formulaAddress)]
    [] ast.type = "FUNCTION_CALL" ->
         [ast EXCEPT !.args = [i \in 1..Len(ast.args) |->
                                 convertReversedRangesToRegularRanges(ast.args[i], formulaAddress)]]
    [] OTHER -> ast

-----------------------------------------------------------------------------
(* Formula hashes. A hash is a string; the model keeps it as the sequence  *)
(* of the pieces the code concatenates, so that two hashes are equal when  *)
(* the strings are.                                                        *)

Image(string) == [image |-> string]

\* the text of a token
image(token) ==
  CASE token.tokenType = "EqualsOp" -> "="
    [] token.tokenType = "RangeSeparator" -> ":"
    [] token.tokenType = "RParen" -> ")"
    [] token.tokenType = "PlusOp" -> "+"
    [] OTHER -> token.image

\* CellAddress.hash(withSheet): the reference type with the stored
\* coordinates, after the sheet when withSheet is set and there is one
hash(ref, withSheet) == [hash |-> IF withSheet THEN ref ELSE [ref EXCEPT !.sheet = NoSheet]]

RECURSIVE computeHashFromTokensAt(_, _, _)

\* the loop of computeHashFromTokens from token idx on; no function name of
\* the inputs is translated, so functionMapping leaves the name as it is
computeHashFromTokensAt(tokens, baseAddress, idx) ==
  IF idx > Len(tokens) THEN <<>>
  ELSE LET token == tokens[idx]
           piece == CASE token.tokenType = "CellReference" ->
                           <<hash(cellAddressFromString(token, baseAddress), TRUE)>>
                      [] token.tokenType = "ProcedureName" ->
                           <<Image(sliceParen(toUpperCase(token.image))), Image("(")>>
                      [] token.tokenType = "ColumnRange" ->
                           <<hash(columnAddressFromString(token.startCol, token.startAbs, baseAddress), TRUE),
                             Image(":"),
                             hash(columnAddressFromString(token.endCol, token.endAbs, baseAddress), TRUE)>>
                      [] token.tokenType = "RowRange" ->
                           <<hash(rowAddressFromString(token.startRow, token.startAbs, baseAddress), TRUE),
                             Image(":"),
                             hash(rowAddressFromString(token.endRow, token.endAbs, baseAddress), TRUE)>>
                      [] OTHER -> <<Image(image(token))>>
       IN  piece \o computeHashFromTokensAt(tokens, baseAddress, idx + 1)

computeHashFromTokens(tokens, baseAddress) == computeHashFromTokensAt(tokens, baseAddress, 1)

RECURSIVE computeHashOfAstNode(_)
RECURSIVE joinHashesOfArgs(_, _)

\* args.map(computeHashOfAstNode).join(functionArgSeparator)
joinHashesOfArgs(args, i) ==
  IF i > Len(args) THEN <<>>
  ELSE computeHashOfAstNode(args[i])
         \o (IF i < Len(args) THEN <<Image(",")>> ELSE <<>>)
         \o joinHashesOfArgs(args, i + 1)

\* the ASTs of the model carry no whitespace
computeHashOfAstNode(ast) ==
  CASE ast.type = "EMPTY" -> <<>>
    [] ast.type = "NAMED_EXPRESSION" -> <<Image(ast.expressionName)>>
    [] ast.type = "FUNCTION_CALL" ->
         <<Image(ast.procedureName), Image("(")>> \o joinHashesOfArgs(ast.args, 1) \o <<Image(")")>>
    [] ast.type = "CELL_REFERENCE" -> <<hash(ast.reference, TRUE)>>
    [] ast.type \in {"CELL_RANGE", "COLUMN_RANGE", "ROW_RANGE"} ->
         <<hash(ast.start, ast.sheetReferenceType # "RELATIVE"), Image(":"),
           hash(ast.end, ast.sheetReferenceType = "BOTH_ABSOLUTE")>>
    [] ast.type = "ERROR" -> <<Image("#ERROR!")>>
    [] ast.type = "PLUS_OP" ->
         computeHashOfAstNode(ast.left) \o <<Image("+")>> \o computeHashOfAstNode(ast.right)
    [] OTHER -> <<Image(ast.type)>>

computeHashFromAst(ast) == <<Image("=")>> \o computeHashOfAstNode(ast)

-----------------------------------------------------------------------------
(* The cache (parser/index.ts). An AST in the cache is an object: `object` *)
(* is its identity, `node` its content.                                    *)

Ast(object, node) == [object |-> object, node |-> node]

buildCacheEntry(ast, relativeDependencies, hasVolatileFunction, hasStructuralChangeFunction) ==
  [ast |-> ast, relativeDependencies |-> relativeDependencies,
   hasVolatileFunction |-> hasVolatileFunction,
   hasStructuralChangeFunction |-> hasStructuralChangeFunction]

\* what Map.get answers for a key it does not hold
undefined == buildCacheEntry(Ast(0, NoAst), <<>>, FALSE, FALSE)

\* Cache.set: the cache after the call; the entry it returns is get of it
set(cache, h, ast) ==
  LET cacheEntry == buildCacheEntry(ast, collectDependencies(ast.node),
                                    doesContainFunctions(ast.node, TRUE),
                                    doesContainFunctions(ast.node, FALSE))
  IN  [k \in DOMAIN cache \cup {h} |-> IF k = h THEN cacheEntry ELSE cache[k]]

\* a faulty variant: every lookup misses
getMiss(cache, h) == undefined

get(cache, h) == IF h \in DOMAIN cache THEN cache[h] ELSE undefined

\* a faulty variant: the entry is set whether or not there is one
setAndThenGet(cache, h, ast) == set(cache, h, ast)

\* Cache.maybeSetAndThenGet: the cache after the call; the AST it returns is
\* the one of get of it
maybeSetAndThenGet(cache, h, ast) ==
  IF get(cache, h) # undefined THEN cache ELSE set(cache, h, ast)

-----------------------------------------------------------------------------
(* ParserWithCaching *)

ParsingResult(ast, errors, hasVolatileFunction, hasStructuralChangeFunction, dependencies) ==
  [ast |-> ast, errors |-> errors, hasVolatileFunction |-> hasVolatileFunction,
   hasStructuralChangeFunction |-> hasStructuralChangeFunction,
   dependencies |-> dependencies]

\* new ParserWithCaching: an empty cache; nextObject is the identity of the
\* next AST object that gets created
NewParser == [cache |-> <<>>, statsCacheUsed |-> 0, formulaAddress |-> NoAddress, nextObject |-> 1]

\* lexer.tokenizeFormula: the tokens of a text and the number of characters
\* that no token matches
tokenizeFormula(text) ==
  [tokens |-> SelectSeq(text, LAMBDA token : token # IllegalCharacter),
   errors |-> Len(SelectSeq(text, LAMBDA token : token = IllegalCharacter))]

\* a faulty variant: what was parsed is stored whether or not it has errors
storeParsedAlways(self, h, parsingResult) ==
  [self EXCEPT !.cache = set(self.cache, h, Ast(self.nextObject, parsingResult.ast)),
               !.nextObject = self.nextObject + 1]

\* parse on a miss: the AST that parseFromTokens built is a new object, and
\* it is stored under the hash when the parse had no errors
storeParsed(self, h, parsingResult) ==
  IF parsingResult.errors > 0
  THEN [self EXCEPT !.nextObject = self.nextObject + 1]
  ELSE [self EXCEPT !.cache = set(self.cache, h, Ast(self.nextObject, parsingResult.ast)),
                    !.nextObject = self.nextObject + 1]

\* ParserWithCaching.parse of a text: the parser after the call, the hash,
\* the cache entry used and the result. The AST of the result is kept by its
\* content. A text with a lexing error is answered before anything is hashed.
parse(self, text, formulaAddress) ==
  LET p1 == [self EXCEPT !.formulaAddress = formulaAddress]
      tokens == tokenizeFormula(text).tokens
      returned(h, p2, failed, parsingResult, cacheResult, astWithNoReversedRanges) ==
        [parser |-> p2, hash |-> h, cacheResult |-> cacheResult,
         result |-> IF failed
                    THEN ParsingResult(parsingResult.ast, parsingResult.errors, FALSE, FALSE, <<>>)
                    ELSE ParsingResult(astWithNoReversedRanges, 0,
                                       cacheResult.hasVolatileFunction,
                                       cacheResult.hasStructuralChangeFunction,
                                       collectDependencies(astWithNoReversedRanges))]
      \* the cache entry is read back and its reversed ranges are put in order
      cached(h, p2, failed, parsingResult) ==
        returned(h, p2, failed, parsingResult, get(p2.cache, h),
                 convertReversedRangesToRegularRanges(get(p2.cache, h).ast.node,
                                                      p2.formulaAddress))
      \* a hit is counted; a miss is parsed and, without errors, stored
      looked(h, found, failed, parsingResult) ==
        cached(h,
               IF found # undefined THEN [p1 EXCEPT !.statsCacheUsed = p1.statsCacheUsed + 1]
               ELSE storeParsed(p1, h, parsingResult),
               failed, parsingResult)
      hashed(h, found, parsingResult) ==
        looked(h, found, found = undefined /\ parsingResult.errors > 0, parsingResult)
  IN  IF tokenizeFormula(text).errors > 0
      THEN [parser |-> p1, hash |-> <<>>, cacheResult |-> undefined,
            result |-> ParsingResult(buildParsingErrorAst, tokenizeFormula(text).errors,
                                     FALSE, FALSE, <<>>)]
      ELSE hashed(computeHashFromTokens(tokens, formulaAddress),
                  get(self.cache, computeHashFromTokens(tokens, formulaAddress)),
                  parseFromTokens(tokens, formulaAddress))

\* ParserWithCaching.rememberNewAst: the parser after the call; the AST it
\* returns is the one the cache then holds for the hash of `ast`
rememberNewAst(self, ast) ==
  [self EXCEPT !.cache = maybeSetAndThenGet(self.cache, computeHashFromAst(ast.node), ast)]

fetchCachedResult(self, h) ==
  LET cacheResult == get(self.cache, h)
  IN  ParsingResult(cacheResult.ast.node, 0, cacheResult.hasVolatileFunction,
                    cacheResult.hasStructuralChangeFunction, cacheResult.relativeDependencies)

fetchCachedResultForAst(self, ast) == fetchCachedResult(self, computeHashFromAst(ast))

-----------------------------------------------------------------------------
(* Recomputation (Evaluator)                                               *)

successors(s, from) == { e[2] : e \in { x \in s.edges : x[1] \in from } }

RECURSIVE reachableFrom(_, _)

reachableFrom(s, from) ==
  LET next == from \cup successors(s, from)
  IN  IF next = from THEN from ELSE reachableFrom(s, next)

\* a vertex of a non-trivial strongly connected component: it reaches itself
onCycle(s, id) == id \in reachableFrom(s, successors(s, {id}))

\* Graph.topSortWithScc: the vertices of the non-trivial components apart
\* from the others (whose order is not used by the model)
graphTopSortWithScc(s) ==
  [sorted |-> { id \in DOMAIN s.nodes : ~onCycle(s, id) },
   cycled |-> { id \in DOMAIN s.nodes : onCycle(s, id) }]

\* a faulty variant: no component is reported
topSortIgnoringScc(s) == [sorted |-> DOMAIN s.nodes, cycled |-> {}]

topSortWithScc(s) == graphTopSortWithScc(s)

\* one recomputation: a formula vertex of a component gets Error(Cycle); the
\* other formula vertices that depend on a dirty or volatile vertex are
\* evaluated, and an array vertex among them whose rectangle has no space
\* is set to no space and holds Error(Spill)
recomputeFormulas(s) ==
  LET toRecompute == reachableFrom(s, verticesToRecompute(s))
      top == topSortWithScc(s)
  IN  [s EXCEPT !.nodes =
         [id \in DOMAIN s.nodes |->
            IF ~isFormulaVertex(s.nodes[id]) THEN s.nodes[id]
            ELSE IF id \in top.cycled THEN [s.nodes[id] EXCEPT !.value = "Cycle"]
            ELSE IF id \in toRecompute
              THEN IF s.nodes[id].kind = "Array" /\ ~isThereSpaceForArray(s, id)
                   THEN setNoSpace(s, id).nodes[id]
                   ELSE [s.nodes[id] EXCEPT !.value = "Computed"]
            ELSE s.nodes[id]]]

-----------------------------------------------------------------------------
(* Numbers: IEEE-754 doubles, as far as their magnitude goes *)

\* a double is NaN, an infinity, or sign * m * 10^e with m written without
\* trailing zeros; the double of magnitude 0 is written +0 * 10^0
Double(cls, sign, m, e) == [cls |-> cls, sign |-> sign, m |-> m, e |-> e]

NaN == Double("NaN", 1, 0, 0)

Infinite(sign) == Double("Infinity", sign, 0, 0)

\* Number.MAX_VALUE is 1.7976931348623157 * 10^308: m * 10^e, m below 10000,
\* is beyond it when m * 10^(e - 305) is above 1797
isBeyondMaxValue(m, e) ==
  /\ m > 0
  /\ \/ e > 309
     \/ e >= 305 /\ m * (10 ^ (e - 305)) > 1797

RECURSIVE withoutTrailingZeros(_, _, _)

withoutTrailingZeros(sign, m, e) ==
  IF m = 0 THEN Double("finite", 1, 0, 0)
  ELSE IF m % 10 = 0 THEN withoutTrailingZeros(sign, m \div 10, e + 1)
  ELSE Double("finite", sign, m, e)

\* the double nearest to sign * m * 10^e: an infinity when the magnitude is
\* beyond Number.MAX_VALUE (the inputs hold no magnitude below the smallest
\* double)
toDouble(sign, m, e) ==
  IF isBeyondMaxValue(m, e) THEN Infinite(sign) ELSE withoutTrailingZeros(sign, m, e)

isNaN(arg) == arg.cls = "NaN"

\* isNumberOverflow of ArithmeticHelper
isNumberOverflow(arg) == isNaN(arg) \/ arg = Infinite(1) \/ arg = Infinite(-1)

\* x / 100
dividedBy100(x) ==
  IF x.cls = "finite" THEN toDouble(x.sign, x.m, x.e - 2) ELSE x

\* l <= r for finite doubles of small exponents
lessOrEqual(l, r) ==
  LET e == IF l.e < r.e THEN l.e ELSE r.e
  IN  l.sign * l.m * (10 ^ (l.e - e)) <= r.sign * r.m * (10 ^ (r.e - e))

\* x + y, x - y, x * y and x / 2 of finite doubles of few digits, which the
\* floating-point operations compute without rounding
plus(x, y) ==
  LET e == IF x.e < y.e THEN x.e ELSE y.e
      v == x.sign * x.m * (10 ^ (x.e - e)) + y.sign * y.m * (10 ^ (y.e - e))
  IN  toDouble(IF v < 0 THEN -1 ELSE 1, IF v < 0 THEN -v ELSE v, e)

minus(x, y) == plus(x, [y EXCEPT !.sign = -y.sign])

times(x, y) == toDouble(x.sign * y.sign, x.m * y.m, x.e + y.e)

half(x) == toDouble(x.sign, x.m * 5, x.e - 1)

-----------------------------------------------------------------------------
(* Texts: sequences of characters, and the conversion of a text to a number *)

Digits == {"0", "1", "2", "3", "4", "5", "6", "7", "8", "9"}

digitValue(c) ==
  CASE c = "0" -> 0 [] c = "1" -> 1 [] c = "2" -> 2 [] c = "3" -> 3 [] c = "4" -> 4
    [] c = "5" -> 5 [] c = "6" -> 6 [] c = "7" -> 7 [] c = "8" -> 8 [] c = "9" -> 9

\* \d*
isDigits(t) == \A i \in 1..Len(t) : t[i] \in Digits

\* \d+
isDigits1(t) == Len(t) >= 1 /\ isDigits(t)

RECURSIVE digitsValue(_)

digitsValue(t) ==
  IF t = <<>> THEN 0 ELSE 10 * digitsValue(SubSeq(t, 1, Len(t) - 1)) + digitValue(t[Len(t)])

\* the first index of a character in a text, 0 when it is not there
indexOf(t, c) ==
  IF \E i \in 1..Len(t) : t[i] = c THEN CHOOSE i \in 1..Len(t) : t[i] = c /\ \A j \in 1..(i - 1) : t[j] # c
  ELSE 0

\* the text from index i to its end
from(t, i) == SubSeq(t, i, Len(t))

hasSign(t) == Len(t) >= 1 /\ t[1] \in {"+", "-"}

unsigned(t) == IF hasSign(t) THEN Tail(t) ELSE t

signOf(t) == IF Len(t) >= 1 /\ t[1] = "-" THEN -1 ELSE 1

RECURSIVE trim(_)

\* String.prototype.trim, and \s* at both ends of a group
trim(t) ==
  IF Len(t) >= 1 /\ t[1] = " " THEN trim(Tail(t))
  ELSE IF Len(t) >= 1 /\ t[Len(t)] = " " THEN trim(SubSeq(t, 1, Len(t) - 1))
  ELSE t

\* the characters of a text in lower case, for the letters of the inputs
charToLowerCase(c) ==
  CASE c = "T" -> "t" [] c = "R" -> "r" [] c = "U" -> "u" [] c = "E" -> "e"
    [] c = "C" -> "c" [] c = "I" -> "i" [] c = "O" -> "o" [] c = "N" -> "n"
    [] c = "M" -> "m" [] OTHER -> c

charToUpperCase(c) ==
  CASE c = "t" -> "T" [] c = "r" -> "R" [] c = "u" -> "U" [] c = "e" -> "E"
    [] c = "c" -> "C" [] c = "i" -> "I" [] c = "o" -> "O" [] c = "n" -> "N"
    [] c = "m" -> "M" [] OTHER -> c

textToLowerCase(t) == [i \in 1..Len(t) |-> charToLowerCase(t[i])]

textToUpperCase(t) == [i \in 1..Len(t) |-> charToUpperCase(t[i])]

\* [+-]?\d*\.?\d+ : the group of the patterns of the distributions
decimalPattern(t) ==
  LET u == unsigned(t)
      point == indexOf(u, ".")
  IN  IF point = 0 THEN isDigits1(u)
      ELSE isDigits(SubSeq(u, 1, point - 1)) /\ isDigits1(from(u, point + 1))

\* the mantissa of numberPattern: (\.\d+)|(\d+(\.\d*)?) with the default
\* separators (no thousand separator, the point as decimal separator)
mantissaPattern(u) ==
  LET point == indexOf(u, ".")
  IN  IF point = 0 THEN isDigits1(u)
      ELSE IF point = 1 THEN isDigits1(Tail(u))
      ELSE isDigits1(SubSeq(u, 1, point - 1)) /\ isDigits(from(u, point + 1))

\* NumberLiteralHelper.numberPattern: ^([+-]?mantissa)(e[+-]?\d+)?$
numberPattern(input) ==
  LET u == unsigned(input)
      exponent == indexOf(u, "e")
  IN  IF exponent = 0 THEN mantissaPattern(u)
      ELSE /\ mantissaPattern(SubSeq(u, 1, exponent - 1))
           /\ isDigits1(unsigned(from(u, exponent + 1)))

\* Number(text) of a text of digits with a sign, a point and an exponent
Number(text) ==
  LET u == unsigned(text)
      exponent == indexOf(u, "e")
      mantissa == IF exponent = 0 THEN u ELSE SubSeq(u, 1, exponent - 1)
      point == indexOf(mantissa, ".")
      integer == IF point = 0 THEN mantissa ELSE SubSeq(mantissa, 1, point - 1)
      fraction == IF point = 0 THEN <<>> ELSE from(mantissa, point + 1)
      power == IF exponent = 0 THEN 0
               ELSE signOf(from(u, exponent + 1)) * digitsValue(unsigned(from(u, exponent + 1)))
  IN  toDouble(signOf(text), digitsValue(integer \o fraction), power - Len(fraction))

-----------------------------------------------------------------------------
(* NumberLiteralHelper and CellContentParser *)

GaussianNumber(mean, variance) == [cls |-> "GaussianNumber", mean |-> mean, variance |-> variance]

\* the options of a ConfidenceIntervalNumber: the interpretation asked for,
\* empty when none is given
Options(interpretation) == [interpretation |-> interpretation]

NoOptions == Options("")

\* ConfidenceIntervalNumber.detectInterpretation: upper / lower >= 2 of a
\* positive lower is upper >= 2 * lower
detectInterpretation(lower, upper) ==
  IF lessOrEqual(lower, toDouble(1, 0, 0)) THEN "normal"
  ELSE IF lessOrEqual(times(toDouble(1, 2, 0), lower), upper) THEN "lognormal"
  ELSE "normal"

\* the interpretation of the constructor before the test of the bounds
interpretationOf(lower, upper, options) ==
  IF options.interpretation \in {"", "auto"} THEN detectInterpretation(lower, upper)
  ELSE options.interpretation

\* the constructor with the interpretation kept as it is found
ConfidenceIntervalAsFound(lower, upper, confidenceLevel, options) ==
  [cls |-> "ConfidenceIntervalNumber", lower |-> lower, upper |-> upper,
   confidenceLevel |-> confidenceLevel,
   interpretation |-> interpretationOf(lower, upper, options)]

\* new ConfidenceIntervalNumber(lower, upper, confidenceLevel, options); the
\* median val and the formats are not part of the model
ConfidenceIntervalNumber(lower, upper, confidenceLevel, options) ==
  [cls |-> "ConfidenceIntervalNumber", lower |-> lower, upper |-> upper,
   confidenceLevel |-> confidenceLevel,
   interpretation |->
     IF /\ interpretationOf(lower, upper, options) = "lognormal"
        /\ (lessOrEqual(lower, toDouble(1, 0, 0)) \/ lessOrEqual(upper, toDouble(1, 0, 0)))
     THEN "normal"
     ELSE interpretationOf(lower, upper, options)]

\* ConfidenceIntervalNumber.fromNumber
fromNumber(self, val) ==
  LET intervalWidth == minus(self.upper, self.lower)
      newLower == minus(val, half(intervalWidth))
      newUpper == plus(val, half(intervalWidth))
  IN  ConfidenceIntervalNumber(newLower, newUpper, self.confidenceLevel,
                               Options(self.interpretation))

\* SampledDistribution.fromMeanAndVariance: the samples are not part of the model
SampledDistribution(mean, variance) ==
  [cls |-> "SampledDistribution", mean |-> mean, variance |-> variance]

PercentNumber(val) == [cls |-> "PercentNumber", val |-> val]

CurrencyNumber(val, currency) == [cls |-> "CurrencyNumber", val |-> val, currency |-> currency]

CellError(type) == [cls |-> "CellError", type |-> type]

\* the two groups of a pattern  open dec , dec close  with \s* around the
\* groups; <<>> when the text does not match
twoGroups(t, open, close) ==
  LET comma == indexOf(t, ",")
      first == trim(SubSeq(t, Len(open) + 1, comma - 1))
      second == trim(SubSeq(t, comma + 1, Len(t) - Len(close)))
  IN  IF /\ Len(t) >= Len(open) + Len(close) + 1
         /\ SubSeq(t, 1, Len(open)) = open
         /\ from(t, Len(t) - Len(close) + 1) = close
         /\ comma > Len(open)
         /\ comma <= Len(t) - Len(close)
         /\ decimalPattern(first)
         /\ decimalPattern(second)
      THEN <<first, second>>
      ELSE <<>>

\* gaussianPattern: ^N\s*\(\s*dec\s*,\s*dec\s*\)$
gaussianMatch(input) ==
  IF twoGroups(input, <<"N", "(">>, <<")">>) # <<>> THEN twoGroups(input, <<"N", "(">>, <<")">>)
  ELSE twoGroups(input, <<"N", " ", "(">>, <<")">>)

\* what numericStringToMaybeNumber returns when it returns a value
NoNumber == [cls |-> "undefined"]

\* NumberLiteralHelper.numericStringToMaybeNumber
numericStringToMaybeNumber(input) ==
  IF gaussianMatch(input) # <<>>
  THEN GaussianNumber(Number(gaussianMatch(input)[1]), Number(gaussianMatch(input)[2]))
  ELSE IF numberPattern(input)
  THEN IF isNaN(Number(input)) THEN NoNumber ELSE Number(input)
  ELSE NoNumber

\* the contents handed to the engine: null, a number, a boolean, a text
nullContent == [type |-> "null"]
numberContent(value) == [type |-> "number", value |-> value]
booleanContent(value) == [type |-> "boolean", value |-> value]
stringContent(text) == [type |-> "string", value |-> text]

\* CellContent.Type
CellContentEmpty == [type |-> "Empty"]
CellContentNumber(value) == [type |-> "Number", value |-> value]
CellContentString(value) == [type |-> "String", value |-> [cls |-> "string", text |-> value]]
CellContentBoolean(value) ==
  [type |-> "Boolean", value |-> [cls |-> "boolean", value |-> value]]
CellContentFormula(formula) == [type |-> "Formula", formula |-> formula]
CellContentError(errorType) == [type |-> "Error", value |-> CellError(errorType)]

isFormula(text) == Len(text) >= 1 /\ text[1] = "="

isBoolean(text) ==
  textToLowerCase(text) \in {<<"t", "r", "u", "e">>, <<"f", "a", "l", "s", "e">>}

\* config.errorMapping, for the errors of the inputs
errorMapping(upperCased) ==
  CASE upperCased = <<"#", "N", "U", "M", "!">> -> "NUM"
    [] upperCased = <<"#", "D", "I", "V", "/", "0", "!">> -> "DIV_BY_ZERO"
    [] OTHER -> "undefined"

isError(text) == errorMapping(textToUpperCase(text)) # "undefined"

\* the three patterns of a confidence interval: CI[l, u]  [l, u]  l to u
confidenceIntervalMatch(content) ==
  LET lowered == textToLowerCase(content)
      to == indexOf(content, " ")
      lower == SubSeq(content, 1, to - 1)
      rest == trim(from(content, to))
      upper == trim(from(rest, 3))
  IN  IF twoGroups(lowered, <<"c", "i", "[">>, <<"]">>) # <<>>
      THEN twoGroups(lowered, <<"c", "i", "[">>, <<"]">>)
      ELSE IF twoGroups(content, <<"[">>, <<"]">>) # <<>>
      THEN twoGroups(content, <<"[">>, <<"]">>)
      ELSE IF /\ to > 1
              /\ Len(rest) >= 4
              /\ textToLowerCase(SubSeq(rest, 1, 2)) = <<"t", "o">>
              /\ rest[3] = " "
              /\ decimalPattern(lower)
              /\ decimalPattern(upper)
      THEN <<lower, upper>>
      ELSE <<>>

\* the pattern of a sampled distribution: S(mu=dec, sigma^2=dec), the Greek
\* letters and the superscript written as the characters "mu", "sigma", "^2"
sampledMatch(content) ==
  LET comma == indexOf(content, ",")
      mean == SubSeq(content, 5, comma - 1)
      variance == SubSeq(trim(from(content, comma + 1)), 4,
                         Len(trim(from(content, comma + 1))) - 1)
  IN  IF /\ Len(content) >= 10
         /\ SubSeq(content, 1, 4) = <<"S", "(", "mu", "=">>
         /\ comma > 5
         /\ Len(trim(from(content, comma + 1))) >= 5
         /\ SubSeq(trim(from(content, comma + 1)), 1, 3) = <<"sigma", "^2", "=">>
         /\ content[Len(content)] = ")"
         /\ decimalPattern(mean)
         /\ decimalPattern(variance)
      THEN <<mean, variance>>
      ELSE <<>>

\* config.currencySymbol is ['$']
currencyMatcher(token) ==
  IF Len(token) >= 1 /\ token[1] = "$" THEN <<"$", Tail(token)>> ELSE <<>>

\* DateTimeHelper.dateStringToDateNumber: no text of the inputs is a date
dateStringToDateNumber(text) == NoNumber

\* the text branch of CellContentParser.parse after the booleans, the
\* formulas and the errors
parseText(content) ==
  LET ci == confidenceIntervalMatch(content)
      sampled == sampledMatch(content)
      trimmed == trim(content)
      mode == IF Len(trimmed) >= 1 /\ trimmed[Len(trimmed)] = "%" THEN 1
              ELSE IF currencyMatcher(trimmed) # <<>> THEN 2
              ELSE 0
      trimmedContent == IF mode = 1 THEN SubSeq(trimmed, 1, Len(trimmed) - 1)
                        ELSE IF mode = 2 THEN currencyMatcher(trimmed)[2]
                        ELSE trimmed
      val == numericStringToMaybeNumber(trimmedContent)
  IN  IF ci # <<>> /\ lessOrEqual(Number(ci[1]), Number(ci[2]))
      THEN CellContentNumber(ConfidenceIntervalNumber(Number(ci[1]), Number(ci[2]), 95,
                                                     NoOptions))
      ELSE IF sampled # <<>>
      THEN CellContentNumber(SampledDistribution(Number(sampled[1]), Number(sampled[2])))
      ELSE IF val # NoNumber
      THEN CellContentNumber(IF mode = 1 THEN PercentNumber(dividedBy100(val))
                             ELSE IF mode = 2 THEN CurrencyNumber(val, "$")
                             ELSE val)
      ELSE IF dateStringToDateNumber(trimmedContent) # NoNumber
      THEN CellContentNumber(dateStringToDateNumber(trimmedContent))
      ELSE CellContentString(IF Len(content) >= 1 /\ content[1] = "'" THEN Tail(content)
                             ELSE content)

\* CellContentParser.parse (the inputs hold no Date object)
parseCellContent(content) ==
  CASE content.type = "null" -> CellContentEmpty
    [] content.type = "number" ->
         IF isNumberOverflow(content.value) THEN CellContentError("NUM")
         ELSE CellContentNumber(content.value)
    [] content.type = "boolean" -> CellContentBoolean(content.value)
    [] content.type = "string" ->
         IF isBoolean(content.value)
         THEN CellContentBoolean(textToLowerCase(content.value) = <<"t", "r", "u", "e">>)
         ELSE IF isFormula(content.value) THEN CellContentFormula(content.value)
         ELSE IF isError(content.value)
         THEN CellContentError(errorMapping(textToUpperCase(content.value)))
         ELSE parseText(content.value)

-----------------------------------------------------------------------------
(* ArithmeticHelper: division *)

\* the number of decimal digits of m, for m from 1 to 9999
digits(m) == IF m >= 1000 THEN 4 ELSE IF m >= 100 THEN 3 ELSE IF m >= 10 THEN 2 ELSE 1

\* m with zeros appended to four digits
toFourDigits(m) == m * (10 ^ (4 - digits(m)))

\* |x| < |y| for finite doubles with mantissas below 10000
magnitudeLess(x, y) ==
  IF y.m = 0 THEN FALSE
  ELSE IF x.m = 0 THEN TRUE
  ELSE IF x.e + digits(x.m) # y.e + digits(y.m) THEN x.e + digits(x.m) < y.e + digits(y.m)
  ELSE toFourDigits(x.m) < toFourDigits(y.m)

\* Math.abs(x) > Number.MAX_SAFE_INTEGER, which is 9007199254740991, for a
\* finite double with a mantissa below 10000
exceedsMaxSafeInteger(x) ==
  /\ x.m > 0
  /\ \/ x.e + digits(x.m) > 16
     \/ x.e + digits(x.m) = 16 /\ toFourDigits(x.m) > 9007

\* numerator / denominator of IEEE-754, for finite denominators that are 0
\* or a power of ten
quotient(numerator, denominator) ==
  IF isNaN(numerator) \/ isNaN(denominator) THEN NaN
  ELSE IF numerator.cls = "Infinity"
  THEN IF denominator.cls = "Infinity" THEN NaN
       ELSE Infinite(numerator.sign * denominator.sign)
  ELSE IF denominator.cls = "Infinity" THEN toDouble(1, 0, 0)
  ELSE IF denominator.m = 0
  THEN IF numerator.m = 0 THEN NaN ELSE Infinite(numerator.sign * denominator.sign)
  ELSE toDouble(numerator.sign * denominator.sign, numerator.m, numerator.e - denominator.e)

\* config.precisionEpsilon with its default, 10^-13; smartRounding is on
actualEps == toDouble(1, 1, -13)

\* Math.max(this.actualEps * 1000, 1e-12)
divisionThreshold ==
  IF magnitudeLess(toDouble(1, actualEps.m, actualEps.e + 3), toDouble(1, 1, -12))
  THEN toDouble(1, 1, -12)
  ELSE toDouble(1, actualEps.m, actualEps.e + 3)

\* isEffectivelyZero(value, true)
isEffectivelyZero(value) == value.cls = "finite" /\ magnitudeLess(value, divisionThreshold)

\* what safeDivision returns for a division by zero or an unstable result
null == [cls |-> "null"]

\* a faulty variant: the denominator is not tested
safeDivisionUnchecked(numerator, denominator) == quotient(numerator, denominator)

safeDivision(numerator, denominator) ==
  LET result == quotient(numerator, denominator)
  IN  IF (denominator.cls = "finite" /\ denominator.m = 0) \/ isEffectivelyZero(denominator)
      THEN null
      ELSE IF result.cls # "finite" \/ exceedsMaxSafeInteger(result) THEN null
      ELSE result

\* a distribution with the samples that its getSamples() returns; its
\* parameters are not part of the model
Distribution(cls, samples) == [cls |-> cls, samples |-> samples]

Distributions ==
  {"GaussianNumber", "SampledDistribution", "LogNormalNumber", "UniformNumber",
   "ConfidenceIntervalNumber"}

isDistribution(value) == value.cls \in Distributions

\* typeof value === 'number'
isPlainNumber(value) == value.cls \in {"finite", "Infinity", "NaN"}

\* getRawValue of a plain or a typed scalar
getRawValue(value) == IF isPlainNumber(value) THEN value ELSE value.val

\* ConfidenceIntervalNumber.toGaussian
toGaussian(value) ==
  IF value.cls = "ConfidenceIntervalNumber" THEN Distribution("GaussianNumber", value.samples)
  ELSE value

\* how many samples a distribution holds: config.sampleSize
SampleSize == 2

getSamplesFromValue(value) ==
  IF value.cls \in {"GaussianNumber", "SampledDistribution", "LogNormalNumber", "UniformNumber"}
  THEN value.samples
  ELSE [i \in 1..SampleSize |-> getRawValue(value)]

\* x > 0
isPositive(x) == (x.cls = "finite" /\ x.sign = 1 /\ x.m > 0) \/ x = Infinite(1)

\* preservesLogNormal('/', left, right), and likewise with '*'
preservesLogNormal(left, right) ==
  \/ left.cls = "LogNormalNumber" /\ right.cls = "LogNormalNumber"
  \/ left.cls = "LogNormalNumber" /\ isPlainNumber(right) /\ isPositive(right)
  \/ right.cls = "LogNormalNumber" /\ isPlainNumber(left) /\ isPositive(left)

\* a faulty variant: no operation preserves the family
preservesNothing(left, right) == FALSE

\* preservesUniform('/', left, right), and likewise with '*'
preservesUniform(left, right) ==
  \/ left.cls = "UniformNumber" /\ isPlainNumber(right)
  \/ right.cls = "UniformNumber" /\ isPlainNumber(left)

\* a statistic of samples: the value that a fit computes from them
Statistic(name, samples) == [statistic |-> name, of |-> samples]

\* the config that a distribution is constructed with: this.config of the
\* helper, or none
config == [defined |-> TRUE, sampleSize |-> SampleSize]

NoConfig == [defined |-> FALSE]

\* Config.defaultConfig.sampleSize
DefaultSampleSize == 10000

\* calculateMeanAndVariance, then new GaussianNumber(mean, variance), which
\* draws its samples anew
gaussianFrom(resultSamples) ==
  [cls |-> "GaussianNumber", mean |-> Statistic("mean", resultSamples),
   variance |-> Statistic("variance", resultSamples), config |-> NoConfig]

\* fitLogNormal, which fits the positive samples, then
\* new LogNormalNumber(mu, sigma2, this.config)
logNormalFrom(resultSamples) ==
  [cls |-> "LogNormalNumber",
   mu |-> Statistic("mu", SelectSeq(resultSamples, isPositive)),
   sigma2 |-> Statistic("sigma2", SelectSeq(resultSamples, isPositive)),
   config |-> config]

\* fitUniform, then new UniformNumber(a, b, this.config)
uniformFrom(resultSamples) ==
  [cls |-> "UniformNumber", a |-> Statistic("min", resultSamples),
   b |-> Statistic("max", resultSamples), config |-> config]

\* getSamples().length: of the samples that a distribution holds, or of the
\* samples that its constructor generates,
\* this.config?.sampleSize ?? Config.defaultConfig.sampleSize
numberOfSamples(value) ==
  IF "samples" \in DOMAIN value THEN Len(value.samples)
  ELSE IF value.config.defined THEN value.config.sampleSize
  ELSE DefaultSampleSize

\* the loop over the samples of the left operand: resultSamples, or null when
\* one division returns null
divideSamples(leftSamples, rightSamples) ==
  LET results == [i \in 1..Len(leftSamples) |->
                    safeDivision(leftSamples[i],
                                 rightSamples[((i - 1) % Len(rightSamples)) + 1])]
  IN  IF \E i \in 1..Len(results) : results[i] = null THEN null ELSE results

\* the branch of divideDistributions for a Gaussian or sampled left operand
\* and a scalar right operand
divideByScalar(left, rightValue) ==
  LET resultSamples ==
        [i \in 1..Len(left.samples) |->
           IF safeDivision(left.samples[i], rightValue) = null THEN toDouble(1, 0, 0)
           ELSE safeDivision(left.samples[i], rightValue)]
  IN  IF (rightValue.cls = "finite" /\ rightValue.m = 0) \/ isEffectivelyZero(rightValue)
      THEN CellError("DIV_BY_ZERO")
      ELSE IF left.cls = "GaussianNumber" THEN gaussianFrom(resultSamples)
      ELSE Distribution("SampledDistribution", resultSamples)

divideDistributions(left0, right0) ==
  LET left == toGaussian(left0)
      right == toGaussian(right0)
      resultSamples == divideSamples(getSamplesFromValue(left), getSamplesFromValue(right))
  IN  IF left.cls = "LogNormalNumber" \/ right.cls = "LogNormalNumber"
      THEN IF resultSamples = null THEN CellError("DIV_BY_ZERO")
           ELSE IF preservesLogNormal(left, right) THEN logNormalFrom(resultSamples)
           ELSE Distribution("SampledDistribution", resultSamples)
      ELSE IF left.cls = "UniformNumber" \/ right.cls = "UniformNumber"
      THEN IF resultSamples = null THEN CellError("DIV_BY_ZERO")
           ELSE IF preservesUniform(left, right) THEN uniformFrom(resultSamples)
           ELSE Distribution("SampledDistribution", resultSamples)
      ELSE IF isDistribution(left) /\ isDistribution(right)
      THEN IF resultSamples = null THEN CellError("DIV_BY_ZERO")
           ELSE Distribution("SampledDistribution", resultSamples)
      ELSE IF isDistribution(left) THEN divideByScalar(left, getRawValue(right))
      ELSE IF resultSamples = null THEN CellError("DIV_BY_ZERO")
           ELSE IF right.cls = "GaussianNumber" THEN gaussianFrom(resultSamples)
           ELSE Distribution("SampledDistribution", resultSamples)

\* ArithmeticHelper.divide (the type that the quotient of two scalars is
\* given is not part of the model)
divide(left, right) ==
  IF isDistribution(left) \/ isDistribution(right) THEN divideDistributions(left, right)
  ELSE IF (getRawValue(right).cls = "finite" /\ getRawValue(right).m = 0)
            \/ isEffectivelyZero(getRawValue(right))
  THEN CellError("DIV_BY_ZERO")
  ELSE IF safeDivision(getRawValue(left), getRawValue(right)) = null
  THEN CellError("DIV_BY_ZERO")
  ELSE safeDivision(getRawValue(left), getRawValue(right))

-----------------------------------------------------------------------------
(* ArithmeticHelper: multiplication *)

\* Math.max(this.actualEps, 1e-12)
multiplicationThreshold ==
  IF magnitudeLess(actualEps, toDouble(1, 1, -12)) THEN toDouble(1, 1, -12) ELSE actualEps

\* isEffectivelyZero(value), forDivision being false
isEffectivelyZeroForMultiplication(value) ==
  value.cls = "finite" /\ magnitudeLess(value, multiplicationThreshold)

\* left * right of IEEE-754, for finite doubles of few digits
product(left, right) ==
  IF isNaN(left) \/ isNaN(right) THEN NaN
  ELSE IF left.cls = "Infinity" \/ right.cls = "Infinity"
  THEN IF (left.cls = "finite" /\ left.m = 0) \/ (right.cls = "finite" /\ right.m = 0)
       THEN NaN
       ELSE Infinite(left.sign * right.sign)
  ELSE times(left, right)

\* a faulty variant: small operands are multiplied like the others
safeMultiplicationUnchecked(left, right) == product(left, right)

safeMultiplication(left, right) ==
  IF isEffectivelyZeroForMultiplication(left) \/ isEffectivelyZeroForMultiplication(right)
  THEN toDouble(1, 0, 0)
  ELSE product(left, right)

\* samples[i], which is undefined beyond the end; undefined multiplies like NaN
sampleAt(samples, i) == IF i <= Len(samples) THEN samples[i] ELSE NaN

\* elementwiseBinaryOp with safeMultiplication, which never returns null
multiplySamples(leftSamples, rightSamples) ==
  [i \in 1..(IF Len(leftSamples) > Len(rightSamples) THEN Len(leftSamples)
             ELSE Len(rightSamples)) |->
     safeMultiplication(leftSamples[((i - 1) % Len(leftSamples)) + 1],
                        rightSamples[((i - 1) % Len(rightSamples)) + 1])]

\* leftSamples.map((val, i) => safeMultiplication(val, rightSamples[i]))
multiplyPairwise(leftSamples, rightSamples) ==
  [i \in 1..Len(leftSamples) |-> safeMultiplication(leftSamples[i], sampleAt(rightSamples, i))]

\* samples.map((val) => safeMultiplication(val, rightValue)); the order of
\* the factors does not change a product
multiplyByScalar(samples, rightValue) ==
  [i \in 1..Len(samples) |-> safeMultiplication(samples[i], rightValue)]

\* the branches of multiplyDistributions for a Gaussian or sampled operand
\* and a scalar
scaled(distribution, rightValue) ==
  IF distribution.cls = "GaussianNumber"
  THEN gaussianFrom(multiplyByScalar(distribution.samples, rightValue))
  ELSE Distribution("SampledDistribution", multiplyByScalar(distribution.samples, rightValue))

\* multiplyDistributions after the conversion of the confidence intervals
multiplyConverted(left, right) ==
  IF left.cls = "LogNormalNumber" \/ right.cls = "LogNormalNumber"
  THEN IF preservesLogNormal(left, right)
       THEN logNormalFrom(multiplySamples(getSamplesFromValue(left), getSamplesFromValue(right)))
       ELSE Distribution("SampledDistribution",
                         multiplySamples(getSamplesFromValue(left), getSamplesFromValue(right)))
  ELSE IF left.cls = "UniformNumber" \/ right.cls = "UniformNumber"
  THEN IF preservesUniform(left, right)
       THEN uniformFrom(multiplySamples(getSamplesFromValue(left), getSamplesFromValue(right)))
       ELSE Distribution("SampledDistribution",
                         multiplySamples(getSamplesFromValue(left), getSamplesFromValue(right)))
  ELSE IF isDistribution(left) /\ isDistribution(right)
  THEN Distribution("SampledDistribution", multiplyPairwise(left.samples, right.samples))
  ELSE IF isDistribution(left) THEN scaled(left, getRawValue(right))
  ELSE scaled(right, getRawValue(left))

multiplyDistributions(left, right) == multiplyConverted(toGaussian(left), toGaussian(right))

\* ArithmeticHelper.multiply (the type that the product of two scalars is
\* given is not part of the model)
multiply(left, right) ==
  IF isDistribution(left) \/ isDistribution(right) THEN multiplyDistributions(left, right)
  ELSE safeMultiplication(getRawValue(left), getRawValue(right))

-----------------------------------------------------------------------------
(* The inputs *)

A(row) == simpleCellAddress(Sheet1, 0, row)
B(row) == simpleCellAddress(Sheet1, 1, row)

\* addresses that values, parsing errors and set_empty are applied to
ValueAddresses == {A(0), B(0)}
\* addresses that formulas are written to
FormulaAddresses == {A(0), B(0), B(1)}
RawValues == {1, 2}
\* the rows that the ranges of the inputs end in: A1:A2 and A1:A3
RangeEndRows == {1, 2}

RelativeReference(address) == CellReferenceToken(address.col, address.row, FALSE, FALSE)
AbsoluteReference(address) == CellReferenceToken(address.col, address.row, TRUE, TRUE)

\* =A1  =$B$1  =foo  =RAND()  =SUM(A1:A2)  =SUM(A1:A3)
FormulaTexts ==
  { <<EqualsOpToken, RelativeReference(A(0))>>,
    <<EqualsOpToken, AbsoluteReference(B(0))>>,
    <<EqualsOpToken, NamedExpressionToken("foo")>>,
    <<EqualsOpToken, ProcedureNameToken("RAND("), RParenToken>> }
  \cup
  { <<EqualsOpToken, ProcedureNameToken("SUM("), RelativeReference(A(0)),
      RangeSeparatorToken, RelativeReference(A(r)), RParenToken>> : r \in RangeEndRows }

\* the sheet with a whole-column range: values go to A1 and A2, formulas to
\* B1 and B2
ColumnValueAddresses == {A(0), A(1)}
ColumnFormulaAddresses == {B(0), B(1)}

\* =SUM(A:A)  =A3  =SUM(A1:A2)
ColumnFormulaTexts ==
  { <<EqualsOpToken, ProcedureNameToken("SUM("), ColumnRangeToken(0, FALSE, 0, FALSE),
      RParenToken>>,
    <<EqualsOpToken, RelativeReference(A(2))>>,
    <<EqualsOpToken, ProcedureNameToken("SUM("), RelativeReference(A(0)),
      RangeSeparatorToken, RelativeReference(A(1)), RParenToken>> }

C(row) == simpleCellAddress(Sheet1, 2, row)

\* the sheet with an array: array formulas go to C1 and C2, scalar formulas
\* to B1, values to C1 and C2, set_empty to C2
ArrayFormulaAddresses == {C(0), C(1)}
ArrayDependentAddresses == {B(0)}
ArrayValueAddresses == {C(0), C(1)}
ArrayEmptyAddresses == {C(1)}

\* =ARRAYFORMULA(A1:A3), whose result is 1 wide and 3 high
ArrayFormulaTexts ==
  { <<EqualsOpToken, ProcedureNameToken("ARRAYFORMULA("), RelativeReference(A(0)),
      RangeSeparatorToken, RelativeReference(A(2)), RParenToken>> }
ArraySizes == { ArraySize(1, 3) }

\* =C2  =SUM(C1:C3)
ArrayDependentTexts ==
  { <<EqualsOpToken, RelativeReference(C(1))>>,
    <<EqualsOpToken, ProcedureNameToken("SUM("), RelativeReference(C(0)),
      RangeSeparatorToken, RelativeReference(C(2)), RParenToken>> }

\* the sheets under structural edits: values go to A2, A4 and C1 of the first
\* sheet, formulas to B1 and B2 of the first sheet and B1 of the second
StructureValueAddresses == {A(1), A(3), C(0)}
StructureFormulaAddresses == {B(0), B(1), simpleCellAddress(Sheet2, 1, 0)}
StructureSheets == {Sheet1, Sheet2}

\* =SUM(A1:A2)  =SUM(A1:A3)  =FORMULATEXT(A1)
StructureFormulaTexts ==
  { <<EqualsOpToken, ProcedureNameToken("SUM("), RelativeReference(A(0)),
      RangeSeparatorToken, RelativeReference(A(r)), RParenToken>> : r \in RangeEndRows }
  \cup { <<EqualsOpToken, ProcedureNameToken("FORMULATEXT("), RelativeReference(A(0)),
           RParenToken>> }

\* the sheets under removals: values go to A1, A4 and C1 of the first sheet,
\* formulas to B1 of the first and B1 of the second sheet
RemovalValueAddresses == {A(0), A(3), C(0)}
RemovalFormulaAddresses == {B(0), simpleCellAddress(Sheet2, 1, 0)}

\* =A4  =C1  =Sheet1!A1  =SUM(Sheet1!A1:A2)
RemovalFormulaTexts ==
  { <<EqualsOpToken, RelativeReference(A(3))>>,
    <<EqualsOpToken, RelativeReference(C(0))>>,
    <<EqualsOpToken, SheetCellReferenceToken(Sheet1, 0, 0, FALSE, FALSE)>>,
    <<EqualsOpToken, ProcedureNameToken("SUM("), SheetCellReferenceToken(Sheet1, 0, 0, FALSE, FALSE),
      RangeSeparatorToken, RelativeReference(A(1)), RParenToken>> }

\* where rows are inserted, and how many
AddedRowStarts == {1, 2}
AddedRowCounts == {1, 2}

\* the row and the column that are removed, the column that columns are
\* inserted at
RemovedRowStarts == {3}
RemovedColumnStarts == {2}
AddedColumnStarts == {2}

\* the names that are defined, removed, restored and referenced, and their
\* scopes: the workbook and the first sheet
ExpressionNames == {"Foo", "foo", "bar"}
ExpressionScopes == {NoSheet, Sheet1}

\* how many operations on the named expressions a run makes
MaxNameOps == 4

\* the contents typed into A1 and B1: null, true, the numbers 1, 10^308, NaN
\* and the infinities, and the texts
\*   1  1e3  1.5  1e308  2e308  1e999  -1e999  1e999%  $1e999  1E999  true
\*   =A1  #NUM!  '1  abc  [1, 2]  CI[2, 1]  CI[1, 2]  1 to 2  N(1, 2)
\*   S(mu=1, sigma^2=2)
ContentAddresses == {A(0), B(0)}
CellContents ==
  { nullContent, booleanContent(TRUE),
    numberContent(toDouble(1, 1, 0)), numberContent(toDouble(1, 1, 308)),
    numberContent(NaN), numberContent(Infinite(1)), numberContent(Infinite(-1)) }
  \cup
  { stringContent(text) : text \in
      { <<"1">>, <<"1", "e", "3">>, <<"1", ".", "5">>, <<"1", "e", "3", "0", "8">>,
        <<"2", "e", "3", "0", "8">>, <<"1", "e", "9", "9", "9">>,
        <<"-", "1", "e", "9", "9", "9">>, <<"1", "e", "9", "9", "9", "%">>,
        <<"$", "1", "e", "9", "9", "9">>, <<"1", "E", "9", "9", "9">>,
        <<"t", "r", "u", "e">>, <<"=", "A", "1">>, <<"#", "N", "U", "M", "!">>,
        <<"'", "1">>, <<"a", "b", "c">>, <<"[", "1", ",", " ", "2", "]">>,
        <<"C", "I", "[", "2", ",", " ", "1", "]">>, <<"1", " ", "t", "o", " ", "2">>,
        <<"C", "I", "[", "1", ",", " ", "2", "]">>,
        <<"N", "(", "1", ",", " ", "2", ")">>,
        <<"S", "(", "mu", "=", "1", ",", " ", "sigma", "^2", "=", "2", ")">> } }

\* how many contents a run types in
MaxContentOps == 2

\* the tokens of the formula text of the contents (the lexer)
tokenize(formula) ==
  CASE formula = <<"=", "A", "1">> -> <<EqualsOpToken, RelativeReference(A(0))>>

\* the samples of the operands of a division: 0, 10^-11, 1 and 10^16; the
\* samples of a log-normal distribution are positive
SampleValues == {toDouble(1, 0, 0), toDouble(1, 1, -11), toDouble(1, 1, 0), toDouble(1, 1, 16)}
PositiveSampleValues == { x \in SampleValues : isPositive(x) }

\* the operands of a division: the distributions with these samples, the
\* plain scalars, NaN, and the percent numbers 0% and 100%
DivisionOperands ==
  { Distribution(cls, samples) :
      cls \in Distributions \ {"LogNormalNumber"}, samples \in [1..SampleSize -> SampleValues] }
  \cup { Distribution("LogNormalNumber", samples) :
           samples \in [1..SampleSize -> PositiveSampleValues] }
  \cup SampleValues \cup {NaN}
  \cup { PercentNumber(toDouble(1, 0, 0)), PercentNumber(toDouble(1, 1, 0)) }

\* a Gaussian of a mean and a variance with the samples that its constructor
\* drew
GaussianWith(mean, variance, samples) ==
  [cls |-> "GaussianNumber", mean |-> mean, variance |-> variance, samples |-> samples]

\* the samples of the factors of a multiplication: 0, 10^-13, 1 and 2
FactorSamples == {toDouble(1, 0, 0), toDouble(1, 1, -13), toDouble(1, 1, 0), toDouble(1, 2, 0)}

\* the factors of a multiplication: the Gaussians N(1, 2) and N(1, 1), the
\* other distributions, the sampled distributions of one sample, the plain
\* scalars 0, 10^-13, 1, 2 and 3, and the percent number 100%
Factors ==
  { GaussianWith(toDouble(1, 1, 0), variance, samples) :
      variance \in {toDouble(1, 1, 0), toDouble(1, 2, 0)},
      samples \in [1..SampleSize -> FactorSamples] }
  \cup { Distribution(cls, samples) :
           cls \in {"SampledDistribution", "UniformNumber", "ConfidenceIntervalNumber"},
           samples \in [1..SampleSize -> FactorSamples] }
  \cup { Distribution("LogNormalNumber", samples) :
           samples \in [1..SampleSize -> { x \in FactorSamples : isPositive(x) }] }
  \cup { Distribution("SampledDistribution", <<x>>) : x \in FactorSamples }
  \cup FactorSamples \cup {toDouble(1, 3, 0)}
  \cup { PercentNumber(toDouble(1, 1, 0)) }

\* what parse returns for each formula text at each address
ParsedFormulas ==
  [address \in FormulaAddresses \cup ColumnFormulaAddresses \cup ArrayFormulaAddresses
                \cup ArrayDependentAddresses \cup StructureFormulaAddresses |->
     [text \in FormulaTexts \cup ColumnFormulaTexts \cup ArrayFormulaTexts
                \cup ArrayDependentTexts \cup StructureFormulaTexts
                \cup RemovalFormulaTexts |->
        parse(NewParser, text, address).result]]

\* addresses that the parser is asked to parse at
ParserAddresses == {B(0), B(2)}

\* =A1  =A3  =RAND()  =rand()  =SUM($A$2:A1)  =SUM($A$2:A3)  =A1+
ParserTexts ==
  { <<EqualsOpToken, RelativeReference(A(0))>>,
    <<EqualsOpToken, RelativeReference(A(2))>>,
    <<EqualsOpToken, ProcedureNameToken("RAND("), RParenToken>>,
    <<EqualsOpToken, ProcedureNameToken("rand("), RParenToken>>,
    <<EqualsOpToken, ProcedureNameToken("SUM("), AbsoluteReference(A(1)),
      RangeSeparatorToken, RelativeReference(A(0)), RParenToken>>,
    <<EqualsOpToken, ProcedureNameToken("SUM("), AbsoluteReference(A(1)),
      RangeSeparatorToken, RelativeReference(A(2)), RParenToken>>,
    <<EqualsOpToken, RelativeReference(A(0)), PlusOpToken>> }

\* formulas with ranges, at B1 and B3 of the first sheet:
\* =SUM($A$2:A1)  =SUM(A1:$A$2)  =SUM(C3:A1)  =SUM(C:A)  =SUM($B:C)  =SUM(3:1)
\* =SUM(Sheet2!A2:Sheet1!A1)  =SUM(Sheet2!A2:A1)  =SUM(A1:Sheet2!A2)  =A1+
\* and =A1 followed by a character that is no token
RangeTexts ==
  LET sum(range) == <<EqualsOpToken, ProcedureNameToken("SUM(")>> \o range \o <<RParenToken>>
      cells(a, b) == <<a, RangeSeparatorToken, b>>
  IN  { sum(cells(AbsoluteReference(A(1)), RelativeReference(A(0)))),
        sum(cells(RelativeReference(A(0)), AbsoluteReference(A(1)))),
        sum(cells(CellReferenceToken(2, 2, FALSE, FALSE), RelativeReference(A(0)))),
        sum(<<ColumnRangeToken(2, FALSE, 0, FALSE)>>),
        sum(<<ColumnRangeToken(1, TRUE, 2, FALSE)>>),
        sum(<<RowRangeToken(2, FALSE, 0, FALSE)>>),
        sum(cells(SheetCellReferenceToken(Sheet2, 0, 1, FALSE, FALSE),
                  SheetCellReferenceToken(Sheet1, 0, 0, FALSE, FALSE))),
        sum(cells(SheetCellReferenceToken(Sheet2, 0, 1, FALSE, FALSE), RelativeReference(A(0)))),
        sum(cells(RelativeReference(A(0)), SheetCellReferenceToken(Sheet2, 0, 1, FALSE, FALSE))),
        <<EqualsOpToken, RelativeReference(A(0)), PlusOpToken>>,
        <<EqualsOpToken, RelativeReference(A(0)), IllegalCharacter>> }

\* the ASTs handed to rememberNewAst: ASTs of the formulas above
RememberedAsts ==
  { parseFromTokens(text, B(0)).ast :
      text \in { t \in ParserTexts : parseFromTokens(t, B(0)).errors = 0 } }

-----------------------------------------------------------------------------
(* The engine as a state machine *)

EmptyDependencyGraph ==
  [nodes |-> <<>>, nextId |-> 1, edges |-> {}, dirty |-> {}, volatile |-> {},
   infiniteRanges |-> {}, changingWithStructure |-> {},
   addressMapping |-> <<>>, rangeMapping |-> <<>>, arrayMapping |-> <<>>,
   workbookStore |-> <<>>, nextNamedExpressionRow |-> 0,
   worksheetStores |-> <<>>, addressCache |-> <<>>,
   thrown |-> FALSE]

\* what an operation on `address` found there before it ran
Performed(op, address) ==
  [op |-> op, address |-> address, count |-> 0,
   oldVertex |-> getCell(dg, address),
   oldKind |-> IF getCell(dg, address) = NoId THEN "None" ELSE dg.nodes[getCell(dg, address)].kind,
   oldDependents |-> adjacentNodes(dg, getCell(dg, address))]

NoResult == ParsingResult(NoAst, 0, FALSE, FALSE, <<>>)

\* what a parser call was given and what it returned
Called(op, address, h, cacheResult, result, argument, returned) ==
  [op |-> op, address |-> address, hash |-> h, cacheResult |-> cacheResult,
   result |-> result, argument |-> argument, returned |-> returned]

Init ==
  /\ dg = EmptyDependencyGraph
  /\ last = [op |-> "init", address |-> NoAddress, count |-> 0, oldVertex |-> NoId,
             oldKind |-> "None", oldDependents |-> {}]
  /\ ops = 0
  /\ parser = NewParser
  /\ parsed = Called("init", NoAddress, <<>>, undefined, NoResult, undefined.ast, undefined.ast)
  /\ served = <<>>

Step(s, op, address) ==
  /\ ops < MaxOps
  /\ ~dg.thrown
  /\ dg' = s
  /\ last' = Performed(op, address)
  /\ ops' = ops + 1
  /\ UNCHANGED <<parser, parsed, served>>

\* a structural edit of `count` rows or columns from `address` on
StructuralStep(s, op, address, count) ==
  /\ ops < MaxOps
  /\ ~dg.thrown
  /\ dg' = s
  /\ last' = [Performed(op, address) EXCEPT !.count = count]
  /\ ops' = ops + 1
  /\ UNCHANGED <<parser, parsed, served>>

\* rows are inserted: addRows, and the transformation that the formulas of
\* the sheet are read through from then on
AddRows(sheet, row, numberOfRows) ==
  StructuralStep(transformAddedRows(addRows(dg, sheet, row, numberOfRows),
                                    sheet, row, numberOfRows),
                 "addRows", simpleCellAddress(sheet, 0, row), numberOfRows)

\* the rows from `row` on, or the columns from `column` on, hold no formula
\* and no cell of a range of the sheet: an edit there leaves every AST and
\* every range of the engine as it is
beyondFormulasAndRanges(s, sheet, col, row) ==
  /\ \A r \in DOMAIN s.rangeMapping :
       r.start.sheet = sheet => r.end.col < col \/ r.end.row < row
  /\ \A a \in DOMAIN s.addressMapping :
       (a.sheet = sheet /\ a.col >= col /\ a.row >= row)
         => ~isFormulaVertex(s.nodes[s.addressMapping[a]])

AddColumns(sheet, column, numberOfColumns) ==
  /\ beyondFormulasAndRanges(dg, sheet, column, 0)
  /\ StructuralStep(addColumns(dg, sheet, column, numberOfColumns),
                    "addColumns", simpleCellAddress(sheet, column, 0), numberOfColumns)

RemoveRows(sheet, rowStart, numberOfRows) ==
  /\ beyondFormulasAndRanges(dg, sheet, 0, rowStart)
  /\ StructuralStep(removeRows(dg, sheet, rowStart, numberOfRows),
                    "removeRows", simpleCellAddress(sheet, 0, rowStart), numberOfRows)

RemoveColumns(sheet, columnStart, numberOfColumns) ==
  /\ beyondFormulasAndRanges(dg, sheet, columnStart, 0)
  /\ StructuralStep(removeColumns(dg, sheet, columnStart, numberOfColumns),
                    "removeColumns", simpleCellAddress(sheet, columnStart, 0),
                    numberOfColumns)

\* no formula of one sheet refers to the other, so that the formulas that
\* stay are read as before
ClearSheet(sheetId) ==
  StructuralStep(clearSheet(dg, sheetId), "clearSheet", simpleCellAddress(sheetId, 0, 0), 0)

RemoveSheet(removedSheetId) ==
  StructuralStep(removeSheet(dg, removedSheetId), "removeSheet",
                 simpleCellAddress(removedSheetId, 0, 0), 0)

\* a parsed formula is installed: setFormulaToCell with the absolutized
\* dependencies of the parsing result
SetParsedFormula(address, parsingResult, size, op) ==
  /\ parsingResult.errors = 0
  /\ Step(setFormulaToCell(dg, address, parsingResult.ast,
                           absolutizeDependencies(parsingResult.dependencies, address), size,
                           parsingResult.hasVolatileFunction,
                           parsingResult.hasStructuralChangeFunction),
          op, address)

\* a formula is typed into a cell
SetFormula(address, text) ==
  SetParsedFormula(address, ParsedFormulas[address][text], scalar, "setFormula")

\* a formula whose result is predicted to have the given size is typed in
SetArrayFormula(address, text, size) ==
  SetParsedFormula(address, ParsedFormulas[address][text], size, "setArrayFormula")

SetValue(address, rawValue) == Step(setValueToCell(dg, address, rawValue), "setValue", address)

SetParsingError(address) == Step(setParsingErrorToCell(dg, address), "setParsingError", address)

SetEmpty(address) == Step(setCellEmpty(dg, address), "setEmpty", address)

ClearDirty ==
  /\ dg.dirty # {}
  /\ Step(clearDirtyVertices(dg), "clearDirty", NoAddress)

Recompute ==
  /\ verticesToRecompute(dg) # {}
  /\ Step(clearDirtyVertices(recomputeFormulas(dg)), "recompute", NoAddress)

Next ==
  \/ \E address \in FormulaAddresses, text \in FormulaTexts : SetFormula(address, text)
  \/ \E address \in ValueAddresses, rawValue \in RawValues : SetValue(address, rawValue)
  \/ \E address \in ValueAddresses : SetParsingError(address)
  \/ \E address \in ValueAddresses : SetEmpty(address)
  \/ ClearDirty
  \/ Recompute

Spec == Init /\ [][Next]_vars

\* a formula text is parsed at an address
Parse(text, address) ==
  LET returned(call) ==
        /\ ops < MaxOps
        /\ parser' = call.parser
        /\ parsed' = Called("parse", address, call.hash, call.cacheResult, call.result,
                            undefined.ast, undefined.ast)
        /\ served' = IF call.result.errors = 0 /\ call.hash \notin DOMAIN served
                     THEN (call.hash :> call.result.ast) @@ served
                     ELSE served
        /\ ops' = ops + 1
        /\ UNCHANGED <<dg, last>>
  IN  returned(parse(parser, text, address))

\* a transformed AST, a new object, is handed to rememberNewAst
RememberNewAst(node) ==
  LET ast == Ast(parser.nextObject, node)
      h == computeHashFromAst(node)
      created == [parser EXCEPT !.nextObject = parser.nextObject + 1]
      remembered == rememberNewAst(created, ast)
  IN  /\ ops < MaxOps
      /\ parser' = remembered
      /\ parsed' = Called("rememberNewAst", NoAddress, h, get(remembered.cache, h), NoResult,
                          ast, get(remembered.cache, h).ast)
      /\ ops' = ops + 1
      /\ UNCHANGED <<dg, last, served>>

NextParser ==
  \/ \E text \in ParserTexts, address \in ParserAddresses : Parse(text, address)
  \/ \E node \in RememberedAsts : RememberNewAst(node)

SpecParser == Init /\ [][NextParser]_vars

\* the AST that the last parse returned is handed to fetchCachedResultForAst,
\* which throws when the cache has no entry for the hash of the AST
FetchCachedResultForAst ==
  LET ast == parsed.result.ast
      h == computeHashFromAst(ast)
  IN  /\ ops < MaxOps
      /\ parsed.op = "parse"
      /\ parsed.result.errors = 0
      /\ parsed' = Called("fetchCachedResultForAst", parsed.address, h, get(parser.cache, h),
                          IF get(parser.cache, h) = undefined THEN NoResult
                          ELSE fetchCachedResultForAst(parser, ast),
                          Ast(0, ast), get(parser.cache, h).ast)
      /\ ops' = ops + 1
      /\ UNCHANGED <<dg, last, parser, served>>

\* formulas with ranges are parsed, and what was parsed is fetched again
NextRanges ==
  \/ \E text \in RangeTexts, address \in ParserAddresses : Parse(text, address)
  \/ FetchCachedResultForAst

SpecRanges == Init /\ [][NextRanges]_vars

\* the cell operations on a sheet with a whole-column range
NextColumns ==
  \/ \E address \in ColumnFormulaAddresses, text \in ColumnFormulaTexts :
       SetFormula(address, text)
  \/ \E address \in ColumnValueAddresses, rawValue \in RawValues : SetValue(address, rawValue)
  \/ \E address \in ColumnValueAddresses : SetParsingError(address)
  \/ \E address \in ColumnValueAddresses : SetEmpty(address)

SpecColumns == Init /\ [][NextColumns]_vars

\* the cell operations on a sheet with an array, and recomputation
NextArrays ==
  \/ \E address \in ArrayFormulaAddresses, text \in ArrayFormulaTexts, size \in ArraySizes :
       SetArrayFormula(address, text, size)
  \/ \E address \in ArrayDependentAddresses, text \in ArrayDependentTexts :
       SetFormula(address, text)
  \/ \E address \in ArrayValueAddresses, rawValue \in RawValues : SetValue(address, rawValue)
  \/ \E address \in ArrayEmptyAddresses : SetEmpty(address)
  \/ Recompute

SpecArrays == Init /\ [][NextArrays]_vars

\* the cell operations and the structural edits of a sheet with ranges
NextStructure ==
  \/ \E address \in StructureFormulaAddresses, text \in StructureFormulaTexts :
       SetFormula(address, text)
  \/ \E address \in StructureValueAddresses, rawValue \in RawValues : SetValue(address, rawValue)
  \/ ClearDirty
  \/ \E row \in AddedRowStarts, numberOfRows \in AddedRowCounts :
       AddRows(Sheet1, row, numberOfRows)
  \/ \E column \in AddedColumnStarts : AddColumns(Sheet1, column, 1)
  \/ \E rowStart \in RemovedRowStarts : RemoveRows(Sheet1, rowStart, 1)
  \/ \E columnStart \in RemovedColumnStarts : RemoveColumns(Sheet1, columnStart, 1)
  \/ \E sheetId \in StructureSheets : ClearSheet(sheetId)
  \/ \E removedSheetId \in StructureSheets : RemoveSheet(removedSheetId)

SpecStructure == Init /\ [][NextStructure]_vars

\* cells that formulas of both sheets read are removed with their row, their
\* column or their sheet
NextRemovals ==
  \/ \E address \in RemovalFormulaAddresses, text \in RemovalFormulaTexts :
       SetFormula(address, text)
  \/ \E address \in RemovalValueAddresses, rawValue \in RawValues : SetValue(address, rawValue)
  \/ ClearDirty
  \/ \E rowStart \in RemovedRowStarts : RemoveRows(Sheet1, rowStart, 1)
  \/ \E columnStart \in RemovedColumnStarts : RemoveColumns(Sheet1, columnStart, 1)
  \/ \E removedSheetId \in StructureSheets : RemoveSheet(removedSheetId)

SpecRemovals == Init /\ [][NextRemovals]_vars

\* a content is typed into a cell (Operations.setCellContent): the content is
\* parsed; a formula is installed, an empty content empties the cell, and the
\* value of any other content is written to the cell
setParsedCellContent(s, address, parsedCellContent, parsingResult) ==
  CASE parsedCellContent.type = "Formula" ->
         setFormulaToCell(s, address, parsingResult.ast,
                          absolutizeDependencies(parsingResult.dependencies, address),
                          scalar, parsingResult.hasVolatileFunction,
                          parsingResult.hasStructuralChangeFunction)
    [] parsedCellContent.type = "Empty" -> setCellEmpty(s, address)
    [] OTHER -> setValueToCell(s, address, parsedCellContent.value)

setCellContent(s, address, newCellContent) ==
  setParsedCellContent(s, address, parseCellContent(newCellContent),
                       ParsedFormulas[address][tokenize(parseCellContent(newCellContent).formula)])

SetCellContents(address, content) ==
  /\ ops < MaxContentOps
  /\ ~dg.thrown
  /\ dg' = setCellContent(dg, address, content)
  /\ last' = [content |-> content] @@ Performed("setCellContents", address)
  /\ ops' = ops + 1
  /\ UNCHANGED <<parser, parsed, served>>

NextContents ==
  \E address \in ContentAddresses, content \in CellContents : SetCellContents(address, content)

SpecContents == Init /\ [][NextContents]_vars

\* the bounds of the intervals: -1, 0, 1, 2 and 4; the interpretations asked
\* for; the numbers an interval is moved to: 0, 1 and 3
IntervalBounds ==
  { toDouble(-1, 1, 0), toDouble(1, 0, 0), toDouble(1, 1, 0), toDouble(1, 2, 0),
    toDouble(1, 4, 0) }

Interpretations == {"", "auto", "normal", "uniform", "lognormal"}

IntervalCentres == { toDouble(1, 0, 0), toDouble(1, 1, 0), toDouble(1, 3, 0) }

\* how many intervals a run constructs
MaxIntervalOps == 3

\* new ConfidenceIntervalNumber(lower, upper, 90, {interpretation}), which
\* without an interpretation is the interval of a literal
Construct(lower, upper, interpretation) ==
  /\ ops < MaxIntervalOps
  /\ last' = [op |-> "construct", lower |-> lower, upper |-> upper,
              requested |-> interpretation,
              interval |-> ConfidenceIntervalNumber(lower, upper, 90,
                                                    Options(interpretation))]
  /\ ops' = ops + 1
  /\ UNCHANGED <<dg, parser, parsed, served>>

\* interval.fromNumber(val) of the interval constructed last
FromNumber(val) ==
  /\ ops < MaxIntervalOps
  /\ last.op \in {"construct", "fromNumber"}
  /\ last' = [op |-> "fromNumber", lower |-> fromNumber(last.interval, val).lower,
              upper |-> fromNumber(last.interval, val).upper,
              requested |-> last.interval.interpretation,
              interval |-> fromNumber(last.interval, val)]
  /\ ops' = ops + 1
  /\ UNCHANGED <<dg, parser, parsed, served>>

NextIntervals ==
  \/ \E lower \in IntervalBounds, upper \in IntervalBounds, interpretation \in Interpretations :
       Construct(lower, upper, interpretation)
  \/ \E val \in IntervalCentres : FromNumber(val)

SpecIntervals == Init /\ [][NextIntervals]_vars

\* a run of the divisions starts with two operands
InitDivisions ==
  /\ dg = EmptyDependencyGraph
  /\ last \in { [op |-> "operands", left |-> left, right |-> right, result |-> null] :
                  left \in DivisionOperands, right \in DivisionOperands }
  /\ ops = 0
  /\ parser = NewParser
  /\ parsed = Called("init", NoAddress, <<>>, undefined, NoResult, undefined.ast, undefined.ast)
  /\ served = <<>>

\* the operands are divided
Divide ==
  /\ last.op = "operands"
  /\ last' = [last EXCEPT !.op = "divide", !.result = divide(last.left, last.right)]
  /\ ops' = ops + 1
  /\ UNCHANGED <<dg, parser, parsed, served>>

NextDivisions == Divide

SpecDivisions == InitDivisions /\ [][NextDivisions]_vars

\* a run of the products and the quotients starts with two factors or with
\* the two operands of a division
InitProducts ==
  /\ dg = EmptyDependencyGraph
  /\ \/ last \in { [op |-> "factors", left |-> left, right |-> right, result |-> null] :
                     left \in Factors, right \in Factors }
     \/ last \in { [op |-> "operands", left |-> left, right |-> right, result |-> null] :
                     left \in DivisionOperands, right \in DivisionOperands }
  /\ ops = 0
  /\ parser = NewParser
  /\ parsed = Called("init", NoAddress, <<>>, undefined, NoResult, undefined.ast, undefined.ast)
  /\ served = <<>>

\* the factors are multiplied
Multiply ==
  /\ last.op = "factors"
  /\ last' = [last EXCEPT !.op = "multiply", !.result = multiply(last.left, last.right)]
  /\ ops' = ops + 1
  /\ UNCHANGED <<dg, parser, parsed, served>>

NextProducts == Multiply \/ Divide

SpecProducts == InitProducts /\ [][NextProducts]_vars

\* what a run of the named expressions remembers: the last operation, the
\* workbook entry of its name before it, the addresses handed out so far with
\* the name and the scope they were handed out for, and the copies of the
\* removed expressions that the undo entries keep
InitNames ==
  /\ dg = EmptyDependencyGraph
  /\ last = [op |-> "init", name |-> "", scope |-> NoSheet, inWorkbook |-> FALSE,
             inSheet |-> FALSE, before |-> InternalNamedExpression("", NoAddress, FALSE),
             handedOut |-> <<>>, undo |-> {}]
  /\ ops = 0
  /\ parser = NewParser
  /\ parsed = Called("init", NoAddress, <<>>, undefined, NoResult, undefined.ast, undefined.ast)
  /\ served = <<>>

\* an operation on `name` in `scope` that leaves the state s and returns, or
\* creates, the expression under `name` in the scope `home`
NamesStep(s, op, name, scope, home, undo) ==
  /\ ops < MaxNameOps
  /\ ~dg.thrown
  /\ dg' = s
  /\ last' = [op |-> op, name |-> name, scope |-> scope,
              inWorkbook |-> storeHas(dg, NoSheet, name),
              inSheet |-> storeHas(dg, scope, name),
              before |-> IF storeHas(dg, scope, name) THEN storeGet(dg, scope, name)
                         ELSE InternalNamedExpression("", NoAddress, FALSE),
              handedOut |-> IF s.nextNamedExpressionRow # dg.nextNamedExpressionRow
                            THEN Append(last.handedOut,
                                        [name |-> toLowerCase(name), scope |-> home,
                                         address |-> storeGet(s, home, name).address])
                            ELSE last.handedOut,
              undo |-> undo]
  /\ ops' = ops + 1
  /\ UNCHANGED <<parser, parsed, served>>

AddNamedExpression(expressionName, sheetId) ==
  NamesStep(addNamedExpression(dg, expressionName, sheetId), "addNamedExpression",
            expressionName, sheetId, sheetId, last.undo)

\* the undo entry of a removal keeps a copy of the removed expression
RemoveNamedExpression(expressionName, sheetId) ==
  LET s == remove(dg, expressionName, sheetId)
  IN  NamesStep(s, "remove", expressionName, sheetId, sheetId,
                IF s.thrown THEN last.undo
                ELSE last.undo \cup { [expression |-> storeGet(dg, sheetId, expressionName),
                                       scope |-> sheetId] })

\* a removal is undone
RestoreNamedExpression(entry) ==
  NamesStep(restoreNamedExpression(dg, entry.expression, entry.scope),
            "restoreNamedExpression", entry.expression.displayName, entry.scope, entry.scope,
            last.undo)

\* a formula of a sheet refers to a name
NamedExpressionOrPlaceholder(expressionName, sheetId) ==
  NamesStep(namedExpressionOrPlaceholder(dg, expressionName, sheetId),
            "namedExpressionOrPlaceholder", expressionName, sheetId, NoSheet, last.undo)

WorkbookNamedExpressionOrPlaceholder(expressionName) ==
  NamesStep(workbookNamedExpressionOrPlaceholder(dg, expressionName),
            "workbookNamedExpressionOrPlaceholder", expressionName, NoSheet, NoSheet,
            last.undo)

NextNames ==
  \/ \E expressionName \in ExpressionNames, sheetId \in ExpressionScopes :
       AddNamedExpression(expressionName, sheetId)
  \/ \E expressionName \in ExpressionNames, sheetId \in ExpressionScopes :
       RemoveNamedExpression(expressionName, sheetId)
  \/ \E entry \in last.undo : RestoreNamedExpression(entry)
  \/ \E expressionName \in ExpressionNames, sheetId \in ExpressionScopes \ {NoSheet} :
       NamedExpressionOrPlaceholder(expressionName, sheetId)
  \/ \E expressionName \in ExpressionNames :
       WorkbookNamedExpressionOrPlaceholder(expressionName)

SpecNames == InitNames /\ [][NextNames]_vars

\* no operation of a run throws
NeverThrows == ~dg.thrown

\* every edge joins two nodes of the graph
NoDanglingEdge == \A e \in dg.edges : hasNode(dg, e[1]) /\ hasNode(dg, e[2])

-----------------------------------------------------------------------------
(* Properties of the dependency graph *)

predecessors(s, id) == { e[1] : e \in { x \in s.edges : x[2] = id } }

VerticesOfKind(s, kind) == { id \in DOMAIN s.nodes : s.nodes[id].kind = kind }

\* the vertices that the resolved dependencies of formula vertex `id` stand for
DependencyVertices(s, id) ==
  LET deps == formulaDependencyQuery(s.nodes[id])
  IN  { dependencyVertex(s, deps[i]) : i \in 1..Len(deps) }

DependedOnAddresses(s, id) ==
  LET deps == formulaDependencyQuery(s.nodes[id])
  IN  UNION { IF deps[i].dep = "CellRange" THEN addresses(deps[i].range)
              ELSE {dependencyAddress(s, deps[i])} : i \in 1..Len(deps) }

C3_VolatileAlwaysRecomputed ==
  \A id \in VerticesOfKind(dg, "Formula") :
    doesContainFunctions(dg.nodes[id].ast, TRUE) => id \in verticesToRecompute(dg)

\* the dirty list was cleared, an unrelated cell was then edited, and a
\* volatile formula vertex is not dirty
C3_Witness ==
  /\ last.op = "setValue"
  /\ \E id \in VerticesOfKind(dg, "Formula") :
       /\ doesContainFunctions(dg.nodes[id].ast, TRUE)
       /\ id \notin dg.dirty
       /\ dg.nodes[id].address # last.address

StrictSubrange(range, other) ==
  addresses(range) \subseteq addresses(other) /\ addresses(range) # addresses(other)

\* the range vertices named by the dependencies of the formula vertex `id`
RangesOfFormula(s, id) ==
  LET deps == formulaDependencyQuery(s.nodes[id])
  IN  { deps[i].range : i \in { j \in 1..Len(deps) : deps[j].dep = "CellRange" } }

CellPredecessors(s, id) == { p \in predecessors(s, id) : s.nodes[p].kind # "Range" }

\* C6: for every range vertex R with an edge S -> R from a range vertex S, the
\* bruteForce flag of R is off and the cell vertices with an edge into R are
\* the vertices of the cells of R that are not cells of S.
C6_OnlyRestCellsIntoSharedRange ==
  \A big \in VerticesOfKind(dg, "Range") :
    \A small \in { p \in predecessors(dg, big) : dg.nodes[p].kind = "Range" } :
      /\ ~dg.nodes[big].bruteForce
      /\ StrictSubrange(dg.nodes[small].range, dg.nodes[big].range)
      /\ CellPredecessors(dg, big) =
           { getCell(dg, a) :
               a \in addresses(dg.nodes[big].range) \ addresses(dg.nodes[small].range) }

\* a range connected cell by cell first was processed again once its smaller
\* range existed: its vertex is older than the vertex of the smaller range
C6_Witness ==
  \E big \in VerticesOfKind(dg, "Range") :
    \E small \in { p \in predecessors(dg, big) : dg.nodes[p].kind = "Range" } :
      /\ big < small
      /\ Cardinality(CellPredecessors(dg, big)) = 1

-----------------------------------------------------------------------------
(* Properties of the parser cache *)

SuccessfulParse == parsed.op = "parse" /\ parsed.result.errors = 0

\* C7 as stated: a successful parse returns the AST that the first parse with
\* the same hash returned.
C7_SameAstForSameHash ==
  SuccessfulParse => parsed.result.ast = served[parsed.hash]

\* C7, amended: no call replaces or drops an entry of the cache, and a
\* successful parse leaves the cache as it is when it already holds an entry
\* for the hash, uses the entry the cache holds for the hash, and returns the
\* AST of that entry with the ends of its ranges put in order for the address
\* of the formula.
C7_SameEntryForSameHash ==
  [][/\ \A h \in DOMAIN parser.cache :
          h \in DOMAIN parser'.cache /\ parser'.cache[h] = parser.cache[h]
     /\ (parsed'.op = "parse" /\ parsed'.result.errors = 0) =>
          /\ parsed'.hash \in DOMAIN parser'.cache
          /\ parsed'.cacheResult = parser'.cache[parsed'.hash]
          /\ parsed'.hash \in DOMAIN parser.cache => parser'.cache = parser.cache
          /\ parsed'.result.ast =
               convertReversedRangesToRegularRanges(parser'.cache[parsed'.hash].ast.node,
                                                    parsed'.address)]_vars

\* a parse was served from the entry an earlier formula with the same hash
\* stored, and its AST is not the one the earlier formula got
C7_Witness ==
  /\ SuccessfulParse
  /\ parser.statsCacheUsed > 0
  /\ parsed.cacheResult.ast.object < parser.nextObject - 1
  /\ parsed.result.ast # served[parsed.hash]

\* C8: rememberNewAst (maybeSetAndThenGet with the hash of the AST) leaves the
\* cache as it is and returns the cached AST, not its argument, when the
\* cache holds an entry for the hash; otherwise it adds exactly one entry, for
\* that hash and with the argument as its AST, and returns the argument.
C8_MaybeSetAddsOnlyWhenAbsent ==
  [][parsed'.op = "rememberNewAst" =>
       IF parsed'.hash \in DOMAIN parser.cache
       THEN /\ parser'.cache = parser.cache
            /\ parsed'.returned = parser.cache[parsed'.hash].ast
            /\ parsed'.returned # parsed'.argument
       ELSE /\ DOMAIN parser'.cache = DOMAIN parser.cache \cup {parsed'.hash}
            /\ \A h \in DOMAIN parser.cache : parser'.cache[h] = parser.cache[h]
            /\ parser'.cache[parsed'.hash].ast = parsed'.argument
            /\ parsed'.returned = parsed'.argument]_vars

\* rememberNewAst found an entry for the hash of its argument
C8_Witness ==
  /\ parsed.op = "rememberNewAst"
  /\ parsed.returned # parsed.argument
  /\ parsed.returned.node = parsed.argument.node

-----------------------------------------------------------------------------
(* Properties of the dependency graph under mutation *)

\* the dependents the last operation found at its address that are still in
\* the graph (ids are never reused)
SurvivingDependents == last.oldDependents \cap DOMAIN dg.nodes

\* C9 as stated: after set_empty on an occupied address, if the old vertex had
\* a dependent the address maps to an Empty vertex with an edge to every one
\* of those dependents; otherwise the old vertex is gone and the address
\* unmapped.
C9_PlaceholderForEveryDependent ==
  (last.op = "setEmpty" /\ last.oldVertex # NoId) =>
    IF last.oldDependents # {}
    THEN /\ getCell(dg, last.address) \in VerticesOfKind(dg, "Empty")
         /\ \A d \in last.oldDependents : <<getCell(dg, last.address), d>> \in dg.edges
    ELSE /\ ~hasNode(dg, last.oldVertex)
         /\ getCell(dg, last.address) = NoId

\* C9, amended: after set_empty on an occupied address the old vertex is gone;
\* if a dependent of it is still in the graph, the address maps to a new Empty
\* vertex whose edges go to exactly the dependents still in the graph;
\* otherwise (it had no dependent, or each one went with it) the address is
\* unmapped.
C9_PlaceholderForSurvivingDependents ==
  (last.op = "setEmpty" /\ last.oldVertex # NoId) =>
    /\ ~hasNode(dg, last.oldVertex)
    /\ IF SurvivingDependents # {}
       THEN /\ getCell(dg, last.address) \in VerticesOfKind(dg, "Empty")
            /\ adjacentNodes(dg, getCell(dg, last.address)) = SurvivingDependents
       ELSE getCell(dg, last.address) = NoId

\* set_empty on a vertex of which one dependent stayed and another one went
C9_Witness ==
  /\ last.op = "setEmpty"
  /\ SurvivingDependents # {}
  /\ SurvivingDependents # last.oldDependents
  /\ getCell(dg, last.address) \in VerticesOfKind(dg, "Empty")

\* the last operation wrote a value over a value vertex
ValueOverValue == last.op = "setValue" /\ last.oldKind = "Value"

\* the last operation wrote content over a vertex of another type
ExchangedVertex ==
  /\ last.op \in {"setValue", "setFormula", "setParsingError"}
  /\ last.oldVertex # NoId
  /\ ~ValueOverValue

\* C10 as stated: a value over a value vertex keeps the vertex and its edges;
\* other content replaces the old vertex by a new one that has an edge to
\* every dependent the old one had.
C10_EveryDependentRewired ==
  /\ ValueOverValue =>
       /\ getCell(dg, last.address) = last.oldVertex
       /\ adjacentNodes(dg, last.oldVertex) = last.oldDependents
  /\ ExchangedVertex =>
       /\ ~hasNode(dg, last.oldVertex)
       /\ hasNode(dg, getCell(dg, last.address))
       /\ \A d \in last.oldDependents : <<getCell(dg, last.address), d>> \in dg.edges

\* the range vertex `id` gets the cell at `address` through its smaller range
ThroughSmallerRange(s, address, id) ==
  /\ s.nodes[id].kind = "Range"
  /\ \E small \in { p \in predecessors(s, id) : s.nodes[p].kind = "Range" } :
       /\ address \in addresses(s.nodes[small].range)
       /\ <<getCell(s, address), small>> \in s.edges

\* C10, amended: a value over a value vertex keeps the vertex and its edges;
\* other content replaces the old vertex by a new one that has an edge to
\* every dependent of the old one that is still in the graph, except that a
\* range vertex which the installation of a formula connected to its smaller
\* range gets the new vertex through that smaller range.
C10_SurvivingDependentsRewired ==
  /\ ValueOverValue =>
       /\ getCell(dg, last.address) = last.oldVertex
       /\ adjacentNodes(dg, last.oldVertex) = last.oldDependents
  /\ ExchangedVertex =>
       /\ ~hasNode(dg, last.oldVertex)
       /\ hasNode(dg, getCell(dg, last.address))
       /\ getCell(dg, last.address) # last.oldVertex
       /\ \A d \in SurvivingDependents :
            \/ <<getCell(dg, last.address), d>> \in dg.edges
            \/ last.op = "setFormula" /\ ThroughSmallerRange(dg, last.address, d)

\* a value replaced a formula of which one dependent stayed and another went
C10_Witness ==
  /\ last.op = "setValue"
  /\ last.oldKind = "Formula"
  /\ SurvivingDependents # {}
  /\ SurvivingDependents # last.oldDependents
  /\ dg.nodes[getCell(dg, last.address)].kind = "Value"

-----------------------------------------------------------------------------
(* Properties of the whole-column ranges *)

\* the vertex at `address` has an edge into every whole-column range of the
\* index that contains the address
ConnectedToInfiniteRanges(s, address) ==
  \A id \in getInfiniteRanges(s) :
    addressInRange(s.nodes[id].range, address)
      => getCell(s, address) # NoId /\ <<getCell(s, address), id>> \in s.edges

\* the addresses that get an Empty vertex in this step
CreatedEmpty(address) ==
  /\ getCell(dg, address) = NoId
  /\ getCell(dg', address) # NoId
  /\ dg'.nodes[getCell(dg', address)].kind = "Empty"

\* C11 as stated: after set_value, set_formula or set_parsing_error on an
\* address, and after an Empty vertex is created at an address, every
\* whole-column range of the index that contains the address has an edge from
\* the vertex at the address.
C11_TouchedOrCreatedCellConnected ==
  [][/\ last'.op \in {"setValue", "setFormula", "setParsingError"}
        => ConnectedToInfiniteRanges(dg', last'.address)
     /\ \A address \in DOMAIN dg'.addressMapping :
          CreatedEmpty(address) => ConnectedToInfiniteRanges(dg', address)]_vars

\* the cells of the finite ranges that the formula installed by the last
\* operation references
CellsOfInstalledRanges(s) ==
  IF last.op # "setFormula" \/ getCell(s, last.address) = NoId THEN {}
  ELSE LET deps == formulaDependencyQuery(s.nodes[getCell(s, last.address)])
       IN  UNION { addresses(deps[i].range) :
                     i \in { k \in 1..Len(deps) :
                               deps[k].dep = "CellRange" /\ isFinite(deps[k].range) } }

\* C11, amended: after set_value, set_formula or set_parsing_error on an
\* address, every whole-column range of the index that contains the address
\* has an edge from the vertex at the address, and so has every cell of a
\* finite range that the installed formula references.
C11_TouchedCellConnected ==
  /\ ~dg.thrown
  /\ last.op \in {"setValue", "setFormula", "setParsingError"}
       => ConnectedToInfiniteRanges(dg, last.address)
  /\ \A address \in CellsOfInstalledRanges(dg) : ConnectedToInfiniteRanges(dg, address)

\* a value was written to an address that had no vertex while a whole-column
\* range over it was in the index, and the new vertex feeds that range
C11_Witness ==
  /\ last.op = "setValue"
  /\ last.oldVertex = NoId
  /\ \E id \in getInfiniteRanges(dg) :
       /\ addressInRange(dg.nodes[id].range, last.address)
       /\ id < getCell(dg, last.address)
       /\ <<getCell(dg, last.address), id>> \in dg.edges

-----------------------------------------------------------------------------
(* Properties of the arrays *)

\* the cells of the rectangle of the array vertex `id`, the corner apart
NonCornerCells(s, id) == addresses(s.nodes[id].range) \ {s.nodes[id].address}

\* a cell of the rectangle, the corner apart, holds a vertex that is neither
\* Empty nor the array
OccupiedUnderArray(s, id) ==
  \E a \in NonCornerCells(s, id) :
    /\ getCell(s, a) \notin {NoId, id}
    /\ hasNode(s, getCell(s, a))
    /\ s.nodes[getCell(s, a)].kind # "Empty"

\* C12 as stated: for every array vertex, every address of its width x height
\* rectangle, the corner and the others, maps to the array vertex.
C12_WholeRectangleMapped ==
  \A id \in VerticesOfKind(dg, "Array") :
    \A a \in addresses(dg.nodes[id].range) : getCell(dg, a) = id

\* C12, amended: the corner of every array vertex maps to it; the other cells
\* of its rectangle either all map to it or none does, and none does when one
\* of them is occupied; right after the installation of an array whose
\* rectangle had space every address of the rectangle maps to it.
C12_RectangleMappedWhenSpace ==
  /\ \A id \in VerticesOfKind(dg, "Array") :
       /\ getCell(dg, dg.nodes[id].address) = id
       /\ \/ \A a \in NonCornerCells(dg, id) : getCell(dg, a) = id
          \/ \A a \in NonCornerCells(dg, id) : getCell(dg, a) # id
       /\ OccupiedUnderArray(dg, id) => \A a \in NonCornerCells(dg, id) : getCell(dg, a) # id
  /\ last.op = "setArrayFormula" =>
       LET id == getCell(dg, last.address)
       IN  /\ id \in VerticesOfKind(dg, "Array")
           /\ ~OccupiedUnderArray(dg, id) =>
                \A a \in addresses(dg.nodes[id].range) : getCell(dg, a) = id

\* an array was installed over the placeholder of a cell that a formula
\* reads, and took the formula over as its dependent
C12_Witness ==
  /\ last.op = "setArrayFormula"
  /\ \E id \in VerticesOfKind(dg, "Array") :
       /\ getCell(dg, last.address) = id
       /\ \A a \in addresses(dg.nodes[id].range) : getCell(dg, a) = id
       /\ \E f \in adjacentNodes(dg, id) : f < id

\* C13: right after a recomputation every array vertex with an occupied cell
\* in its rectangle, the corner apart, is set to no space and holds
\* Error(Spill); and an array vertex under whose rectangle a cell has just
\* been written to is set to no space and holds Error(Spill) at once.
C13_NoSpaceWhenOccupied ==
  /\ last.op = "recompute" =>
       \A id \in VerticesOfKind(dg, "Array") :
         OccupiedUnderArray(dg, id) => dg.nodes[id].value = "Spill"
  /\ (last.oldKind = "Array" /\ hasNode(dg, last.oldVertex)) =>
       dg.nodes[last.oldVertex].value = "Spill"

\* an array installed over an occupied cell has been recomputed
C13_Witness ==
  /\ last.op = "recompute"
  /\ \E id \in VerticesOfKind(dg, "Array") :
       /\ OccupiedUnderArray(dg, id)
       /\ \E a \in NonCornerCells(dg, id) : getCell(dg, a) # NoId /\ getCell(dg, a) < id
       /\ dg.nodes[id].value = "Spill"

-----------------------------------------------------------------------------
(* Properties of the structural edits *)

RECURSIVE RangesFeeding(_, _)

\* the range vertices from which the range vertices `ids` are reached over
\* edges between range vertices, `ids` included
RangesFeeding(s, ids) ==
  LET more == ids \cup { e[1] : e \in { x \in s.edges :
                                          x[2] \in ids /\ hasNode(s, x[1])
                                            /\ s.nodes[x[1]].kind = "Range" } }
  IN  IF more = ids THEN ids ELSE RangesFeeding(s, more)

\* the rows the last operation inserted, within `range`
InsertedSlab(range) ==
  { a \in addresses(range) :
      last.address.row <= a.row /\ a.row < last.address.row + last.count }

\* the rows the last operation inserted are inside `range`
SpansInsertion(range) ==
  /\ range.start.sheet = last.address.sheet
  /\ range.start.row < last.address.row
  /\ range.end.row >= last.address.row + last.count

\* the cell at `a` feeds the range vertex `id`: by an edge when the range is
\* brute-force, else by an edge into the range or into a range vertex that
\* it is reached from
FeedsRange(s, a, id) ==
  /\ getCell(s, a) # NoId
  /\ IF s.nodes[id].bruteForce THEN <<getCell(s, a), id>> \in s.edges
     ELSE \E r \in RangesFeeding(s, {id}) : <<getCell(s, a), r>> \in s.edges

StructuralEdits ==
  {"addRows", "addColumns", "removeRows", "removeColumns", "clearSheet", "removeSheet"}

\* C15: after any structural edit (rows or columns added or removed, a sheet
\* cleared or removed), every vertex registered as dependent on the sheet
\* structure is dirty and is among the vertices to recompute.
C15_StructuralVerticesDirty ==
  (last.op \in StructuralEdits /\ ~dg.thrown)
    => \A id \in dg.changingWithStructure :
         /\ hasNode(dg, id)
         /\ id \in dg.dirty
         /\ id \in verticesToRecompute(dg)

\* a FORMULATEXT formula of the second sheet is registered, and the first
\* sheet was edited
C15_Witness ==
  /\ last.op \in StructuralEdits
  /\ last.address.sheet = Sheet1
  /\ ~dg.thrown
  /\ \E id \in dg.changingWithStructure :
       /\ hasNode(dg, id)
       /\ dg.nodes[id].address.sheet = Sheet2
       /\ id \in dg.dirty

\* the cells that the removal recorded in `edit` takes out of the graph `s`
RemovedCells(s, edit) ==
  { a \in DOMAIN s.addressMapping :
      /\ a.sheet = edit.address.sheet
      /\ edit.op = "removeRows" =>
           edit.address.row <= a.row /\ a.row < edit.address.row + edit.count
      /\ edit.op = "removeColumns" =>
           edit.address.col <= a.col /\ a.col < edit.address.col + edit.count }

\* the vertices with an edge from a vertex of the cells
DependentsOfCells(s, cells) == UNION { adjacentNodes(s, getCell(s, a)) : a \in cells }

\* C27: after remove_rows, remove_columns or remove_sheet, no removed cell is
\* in the address mapping with its vertex, and every vertex that had an edge
\* from the vertex of a removed cell and is still in the graph is dirty and
\* among the vertices to recompute.
C27_DependentsOfRemovedCellsDirty ==
  [][(last'.op \in {"removeRows", "removeColumns", "removeSheet"} /\ ops' = ops + 1
        /\ ~dg'.thrown) =>
       /\ \A a \in RemovedCells(dg, last') : ~hasNode(dg', getCell(dg, a))
       /\ \A id \in DependentsOfCells(dg, RemovedCells(dg, last')) :
            hasNode(dg', id) => id \in dg'.dirty /\ id \in verticesToRecompute(dg')]_vars

\* the row of a cell that a formula reads was removed; the formula is still
\* in the graph and dirty
C27_Witness ==
  /\ last.op = "removeRows"
  /\ ~dg.thrown
  /\ \E id \in last.oldDependents :
       /\ hasNode(dg, id)
       /\ isFormulaVertex(dg.nodes[id])
       /\ id \in verticesToRecompute(dg)
       /\ \A d \in dependencyQueryVertices(dg, id) : d[2] # last.oldVertex

-----------------------------------------------------------------------------
(* Properties of the named expressions *)

\* the named expressions that the stores hold, each with its scope
StoredNamedExpressions(s) ==
  { [name |-> n, scope |-> NoSheet, address |-> s.workbookStore[n].address] :
      n \in DOMAIN s.workbookStore }
  \cup UNION { { [name |-> n, scope |-> sheetId, address |-> s.worksheetStores[sheetId][n].address] :
                   n \in DOMAIN s.worksheetStores[sheetId] } :
               sheetId \in DOMAIN s.worksheetStores }

\* C16: after any sequence of add, remove, restore and placeholder creation,
\* the i-th address handed out is row i - 1, column 0 of the reserved sheet,
\* every stored named expression holds the address that was handed out for
\* its name and scope, and no two of them with different names or scopes
\* share an address.
C16_ConsecutiveDistinctAddresses ==
  /\ Len(last.handedOut) = dg.nextNamedExpressionRow
  /\ \A i \in 1..Len(last.handedOut) :
       last.handedOut[i].address = simpleCellAddress(SHEET_FOR_WORKBOOK_EXPRESSIONS, 0, i - 1)
  /\ \A e \in StoredNamedExpressions(dg) :
       \E i \in 1..Len(last.handedOut) : last.handedOut[i] = e
  /\ \A e1, e2 \in StoredNamedExpressions(dg) : e1.address = e2.address => e1 = e2

\* a removal was undone after another address had been handed out, and the
\* stores hold two named expressions
C16_Witness ==
  /\ last.op = "restoreNamedExpression"
  /\ Len(last.handedOut) >= 2
  /\ Cardinality(StoredNamedExpressions(dg)) >= 2

\* C17: a workbook entry that is not added has an address of the reserved
\* sheet, is not returned by getExisting nor by getAllNamedExpressions, and
\* its name is available; a reference to a name that the workbook store (and
\* the sheet store asked first) does not have creates such an entry, removing
\* a defined workbook name leaves such an entry with the address it had, and
\* addNamedExpression and restoreNamedExpression make the name existing and
\* no longer available.
C17_PlaceholderNotExisting ==
  /\ \A n \in DOMAIN dg.workbookStore :
       ~dg.workbookStore[n].added =>
         /\ dg.workbookStore[n].address.sheet = SHEET_FOR_WORKBOOK_EXPRESSIONS
         /\ dg.workbookStore[n].address.row \in 0..(dg.nextNamedExpressionRow - 1)
         /\ ~hasExisting(dg, n)
         /\ [expression |-> dg.workbookStore[n], scope |-> NoSheet]
              \notin getAllNamedExpressions(dg)
         /\ \A x \in getAllNamedExpressions(dg) :
              x.scope = NoSheet => toLowerCase(x.expression.displayName) # n
         /\ isNameAvailable(dg, n, NoSheet)
  /\ (/\ last.op \in {"namedExpressionOrPlaceholder", "workbookNamedExpressionOrPlaceholder"}
      /\ ~last.inWorkbook
      /\ last.scope # NoSheet => ~last.inSheet)
       => /\ storeHas(dg, NoSheet, last.name)
          /\ ~storeGet(dg, NoSheet, last.name).added
  /\ (last.op = "remove" /\ last.scope = NoSheet /\ ~dg.thrown)
       => /\ storeHas(dg, NoSheet, last.name)
          /\ ~storeGet(dg, NoSheet, last.name).added
          /\ storeGet(dg, NoSheet, last.name).address = last.before.address
  /\ (last.op \in {"addNamedExpression", "restoreNamedExpression"} /\ last.scope = NoSheet)
       => /\ hasExisting(dg, last.name)
          /\ ~isNameAvailable(dg, last.name, NoSheet)

\* a formula of a sheet referred to a name that no store had, after another
\* workbook name was defined and removed: both are placeholders
C17_Witness ==
  /\ last.op = "namedExpressionOrPlaceholder"
  /\ ~last.inWorkbook
  /\ ~last.inSheet
  /\ storeHas(dg, NoSheet, last.name)
  /\ ~storeGet(dg, NoSheet, last.name).added
  /\ \E entry \in last.undo :
       /\ entry.scope = NoSheet
       /\ toLowerCase(entry.expression.displayName) # toLowerCase(last.name)
       /\ ~storeGet(dg, NoSheet, entry.expression.displayName).added

\* C30: a name of the workbook scope keeps one address of the reserved sheet
\* from the call that creates its entry on: no call takes the entry out of
\* the workbook store or changes its address, whether it creates the entry
\* as a placeholder, defines it, removes it or defines it again; and after
\* addNamedExpression the address cache answers that address with the
\* defined expression.
C30_WorkbookNameKeepsAddress ==
  [][/\ \A n \in DOMAIN dg.workbookStore :
          /\ n \in DOMAIN dg'.workbookStore
          /\ dg'.workbookStore[n].address = dg.workbookStore[n].address
          /\ dg'.workbookStore[n].address.sheet = SHEET_FOR_WORKBOOK_EXPRESSIONS
     /\ (last'.op = "addNamedExpression" /\ last'.scope = NoSheet /\ ops' = ops + 1
           /\ ~dg'.thrown) =>
          LET namedExpression == storeGet(dg', NoSheet, last'.name)
          IN  /\ namedExpression.added
              /\ namedExpression.address.row \in DOMAIN dg'.addressCache
              /\ dg'.addressCache[namedExpression.address.row] = namedExpression]_vars

\* a workbook name that had been defined and removed was defined again and
\* has the address that it had when it was removed
C30_Witness ==
  /\ last.op = "addNamedExpression"
  /\ last.scope = NoSheet
  /\ ~dg.thrown
  /\ last.inWorkbook
  /\ ~last.before.added
  /\ storeGet(dg, NoSheet, last.name).added
  /\ \E entry \in last.undo :
       /\ entry.scope = NoSheet
       /\ toLowerCase(entry.expression.displayName) = toLowerCase(last.name)
       /\ storeGet(dg, NoSheet, last.name).address = entry.expression.address
       /\ entry.expression.address.row > 0

-----------------------------------------------------------------------------
(* Properties of the cell contents *)

\* the values that cells hold
CellValues(s) ==
  { s.nodes[s.addressMapping[a]].rawValue :
      a \in { k \in DOMAIN s.addressMapping : s.nodes[s.addressMapping[k]].kind = "Value" } }

\* the numeric value of the content overflows: a number that is NaN or an
\* infinity, or a text of a number beyond the largest double
isOverflowingContent(content) ==
  \/ content.type = "number" /\ isNumberOverflow(content.value)
  \/ /\ content.type = "string"
     /\ numberPattern(trim(content.value))
     /\ isNumberOverflow(Number(trim(content.value)))

\* C18: no cell holds NaN or an infinity as its value, and a content whose
\* numeric value overflows, typed in as a number or as a text, is stored as
\* Error(NUM).
C18_OverflowStoredAsNumError ==
  /\ \A value \in CellValues(dg) : value.cls \notin {"NaN", "Infinity"}
  /\ (last.op = "setCellContents" /\ isOverflowingContent(last.content))
       => /\ getCell(dg, last.address) # NoId
          /\ dg.nodes[getCell(dg, last.address)].kind = "Value"
          /\ dg.nodes[getCell(dg, last.address)].rawValue = CellError("NUM")

\* the text 1e999 was typed into A1, and A1 holds the infinity
C18_Infinity1e999 ==
  /\ last.op = "setCellContents"
  /\ last.content = stringContent(<<"1", "e", "9", "9", "9">>)
  /\ dg.nodes[getCell(dg, last.address)].rawValue = Infinite(1)

-----------------------------------------------------------------------------
(* Properties of the products and the quotients *)

\* the variant of an operand: a confidence interval takes part as a
\* Gaussian, a scalar is a positive plain number, another plain number or a
\* typed number
variant(value) ==
  IF value.cls = "ConfidenceIntervalNumber" THEN "GaussianNumber"
  ELSE IF isDistribution(value) THEN value.cls
  ELSE IF isPlainNumber(value) THEN IF isPositive(value) THEN "positive" ELSE "number"
  ELSE "typed"

\* a product or a quotient with a distribution among its operands that is
\* not an error
isDistributionResult ==
  /\ last.op \in {"multiply", "divide"}
  /\ isDistribution(last.left) \/ isDistribution(last.right)
  /\ isDistribution(last.result)

\* the variant of the result as stated: LogNormal of two LogNormals or of a
\* LogNormal and a positive scalar, Uniform of a Uniform and a scalar,
\* Sampled of all other operands
statedVariant(left, right) ==
  IF \/ left.cls = "LogNormalNumber" /\ right.cls = "LogNormalNumber"
     \/ left.cls = "LogNormalNumber" /\ ~isDistribution(right) /\ isPositive(getRawValue(right))
     \/ right.cls = "LogNormalNumber" /\ ~isDistribution(left) /\ isPositive(getRawValue(left))
  THEN "LogNormalNumber"
  ELSE IF \/ left.cls = "UniformNumber" /\ ~isDistribution(right)
          \/ right.cls = "UniformNumber" /\ ~isDistribution(left)
  THEN "UniformNumber"
  ELSE "SampledDistribution"

\* the variant of the result by the variants of the operands
variantOfResult(left, right) ==
  IF "LogNormalNumber" \in {left, right}
  THEN IF left = right \/ "positive" \in {left, right} THEN "LogNormalNumber"
       ELSE "SampledDistribution"
  ELSE IF "UniformNumber" \in {left, right}
  THEN IF {left, right} \cap {"positive", "number"} # {} THEN "UniformNumber"
       ELSE "SampledDistribution"
  ELSE IF /\ "GaussianNumber" \in {left, right}
          /\ {left, right} \cap {"positive", "number", "typed"} # {}
  THEN "GaussianNumber"
  ELSE "SampledDistribution"

RECURSIVE total(_)

\* samples.reduce((a, b) => a + b, 0)
total(samples) == IF samples = <<>> THEN toDouble(1, 0, 0) ELSE plus(Head(samples), total(Tail(samples)))

\* samples.length as a double
count(samples) == toDouble(1, Len(samples), 0)

\* value is the mean that calculateMeanAndVariance computes from the
\* samples: their total divided by their number
isMeanOf(value, samples) == total(samples) = times(count(samples), value)

\* value is the variance that calculateMeanAndVariance computes from the
\* samples, the mean of the squares of their distances from their mean:
\* n * (the total of the squares) - (the total)^2 = n^2 * value
isVarianceOf(value, samples) ==
  minus(times(count(samples), total([i \in 1..Len(samples) |-> times(samples[i], samples[i])])),
        times(total(samples), total(samples)))
    = times(times(count(samples), count(samples)), value)

\* a Gaussian of a mean and a variance was multiplied by a plain number
isScaledGaussian ==
  /\ last.op = "multiply"
  /\ last.left.cls = "GaussianNumber"
  /\ isPlainNumber(last.right)

\* C25: the product of a Gaussian N(mean, variance) and a scalar c is a
\* Gaussian of the mean c * mean and of the variance c^2 * variance.
C25_ScaledMeanAndVariance ==
  isScaledGaussian
    => /\ last.result.cls = "GaussianNumber"
       /\ isMeanOf(times(last.right, last.left.mean), last.result.mean.of)
       /\ isVarianceOf(times(times(last.right, last.right), last.left.variance),
                       last.result.variance.of)

\* N(1, 2), all of whose samples came out as 1, was multiplied by 3, and the
\* product is a Gaussian of the mean 3 and of the variance 0
C25_VarianceOfTheSamples ==
  /\ isScaledGaussian
  /\ last.left.mean = toDouble(1, 1, 0) /\ last.left.variance = toDouble(1, 2, 0)
  /\ \A i \in 1..Len(last.left.samples) : last.left.samples[i] = toDouble(1, 1, 0)
  /\ last.right = toDouble(1, 3, 0)
  /\ last.result.cls = "GaussianNumber"
  /\ isMeanOf(toDouble(1, 3, 0), last.result.mean.of)
  /\ isVarianceOf(toDouble(1, 0, 0), last.result.variance.of)

\* the lengths of the samples of the operands
lengthsOfOperands ==
  { Len(getSamplesFromValue(toGaussian(last.left))),
    Len(getSamplesFromValue(toGaussian(last.right))) }

\* C21: a distribution that a multiplication or a division returns holds
\* SampleSize samples, the sampleSize of the config, unless it is a sampled
\* distribution, which holds as many samples as the samples it was made
\* from.
C21_ResultsHoldSampleSize ==
  isDistributionResult
    => IF last.result.cls = "SampledDistribution"
       THEN numberOfSamples(last.result) \in lengthsOfOperands
       ELSE numberOfSamples(last.result) = SampleSize

\* a Gaussian of SampleSize samples was multiplied by 3, and the product is
\* a Gaussian of the default number of samples
C21_DefaultNumberOfSamples ==
  /\ last.op = "multiply"
  /\ last.left.cls = "GaussianNumber" /\ numberOfSamples(last.left) = SampleSize
  /\ last.right = toDouble(1, 3, 0)
  /\ last.result.cls = "GaussianNumber"
  /\ numberOfSamples(last.result) = DefaultSampleSize

-----------------------------------------------------------------------------
(* Properties of the confidence intervals *)

\* a bound that is zero or below
nonPositive(x) == lessOrEqual(x, toDouble(1, 0, 0))

-----------------------------------------------------------------------------
(* Properties of the contents *)

\* the three forms of a confidence interval from 1 to 2: CI[1, 2], [1, 2]
\* and 1 to 2
ConfidenceIntervalInputs ==
  { stringContent(text) : text \in
      { <<"C", "I", "[", "1", ",", " ", "2", "]">>, <<"[", "1", ",", " ", "2", "]">>,
        <<"1", " ", "t", "o", " ", "2">> } }

\* C23: a content of the form CI[lo, hi], [lo, hi] or lo to hi with lo <= hi
\* is stored as a ConfidenceInterval of the bounds lo and hi and of the
\* confidence level 90.
C23_StoredWithConfidence90 ==
  (last.op = "setCellContents" /\ last.content \in ConfidenceIntervalInputs)
    => /\ getCell(dg, last.address) # NoId
       /\ dg.nodes[getCell(dg, last.address)].kind = "Value"
       /\ dg.nodes[getCell(dg, last.address)].rawValue
            = ConfidenceIntervalNumber(toDouble(1, 1, 0), toDouble(1, 2, 0), 90, NoOptions)

\* the text CI[1, 2] was typed into a cell, and the cell holds the interval
\* from 1 to 2 of the confidence level 95
C23_StoredWithConfidence95 ==
  /\ last.op = "setCellContents"
  /\ last.content = stringContent(<<"C", "I", "[", "1", ",", " ", "2", "]">>)
  /\ dg.nodes[getCell(dg, last.address)].rawValue
       = ConfidenceIntervalNumber(toDouble(1, 1, 0), toDouble(1, 2, 0), 95, NoOptions)


-----------------------------------------------------------------------------
(* Properties of the division *)

\* a scalar of value 0
isZeroScalar(value) ==
  /\ ~isDistribution(value)
  /\ getRawValue(value).cls = "finite"
  /\ getRawValue(value).m = 0

builtFrom(result) ==
  CASE result.cls = "SampledDistribution" -> result.samples
    [] result.cls = "GaussianNumber" -> result.mean.of
    [] result.cls = "LogNormalNumber" -> result.mu.of
    [] result.cls = "UniformNumber" -> result.a.of

\* the numerators and the denominators of the sample-wise quotients
numerators == getSamplesFromValue(toGaussian(last.left))
denominators == getSamplesFromValue(toGaussian(last.right))

\* C20: a division with a distribution among its operands returns
\* Error(DIV_BY_ZERO) whenever the denominator of a sample-wise quotient is
\* zero or effectively zero, and else returns Error(DIV_BY_ZERO) or a
\* distribution built from all the sample-wise quotients, none of them
\* dropped or replaced.
C20_ErrorOrAllQuotients ==
  (last.op = "divide" /\ (isDistribution(last.left) \/ isDistribution(last.right)))
    => /\ (\E i \in 1..SampleSize :
              \/ denominators[i].cls = "finite" /\ denominators[i].m = 0
              \/ isEffectivelyZero(denominators[i]))
            => last.result = CellError("DIV_BY_ZERO")
       /\ last.result # CellError("DIV_BY_ZERO")
            => builtFrom(last.result)
                 = [i \in 1..SampleSize |-> quotient(numerators[i], denominators[i])]

\* a Gaussian with the sample 10^16 was divided by 1: the result is a
\* Gaussian fitted to samples with 0 in the place of the quotient 10^16
C20_ZeroInPlaceOfQuotient ==
  /\ last.op = "divide"
  /\ last.left.cls = "GaussianNumber"
  /\ last.right = toDouble(1, 1, 0)
  /\ \E i \in 1..SampleSize :
       /\ last.left.samples[i] = toDouble(1, 1, 16)
       /\ last.result.cls = "GaussianNumber"
       /\ last.result.mean.of[i] = toDouble(1, 0, 0)

-----------------------------------------------------------------------------
(* Properties of the ranges of a parsed formula *)

RECURSIVE rangesOf(_)
RECURSIVE rangesOfArgs(_, _)

\* the range nodes of an AST, left to right
rangesOf(ast) ==
  CASE ast.type \in {"CELL_RANGE", "COLUMN_RANGE", "ROW_RANGE"} -> <<ast>>
    [] ast.type = "PLUS_OP" -> rangesOf(ast.left) \o rangesOf(ast.right)
    [] ast.type = "FUNCTION_CALL" -> rangesOfArgs(ast.args, 1)
    [] OTHER -> <<>>

rangesOfArgs(args, i) ==
  IF i > Len(args) THEN <<>> ELSE rangesOf(args[i]) \o rangesOfArgs(args, i + 1)

\* the corner a range end names at the address of the formula; an end that
\* has no column or no row gets 0 there
resolved(end, address) ==
  [sheet |-> IF end.sheet = NoSheet THEN address.sheet ELSE end.sheet,
   col |-> IF "col" \in DOMAIN end
           THEN (IF end.colAbs THEN end.col ELSE address.col + end.col) ELSE 0,
   row |-> IF "row" \in DOMAIN end
           THEN (IF end.rowAbs THEN end.row ELSE address.row + end.row) ELSE 0]

Least(a, b) == IF a <= b THEN a ELSE b
Greatest(a, b) == IF a <= b THEN b ELSE a

\* the ends of a range are in order at an address
Ordered(range, address) ==
  LET start == resolved(range.start, address)
      end == resolved(range.end, address)
  IN  start.col <= end.col /\ start.row <= end.row /\ start.sheet <= end.sheet

\* two ranges cover the same cells at an address
SameRange(rangeA, rangeB, address) ==
  LET startA == resolved(rangeA.start, address)
      endA == resolved(rangeA.end, address)
      startB == resolved(rangeB.start, address)
      endB == resolved(rangeB.end, address)
      corners(start, end) ==
        <<Least(start.sheet, end.sheet), Greatest(start.sheet, end.sheet),
          Least(start.col, end.col), Greatest(start.col, end.col),
          Least(start.row, end.row), Greatest(start.row, end.row)>>
  IN  corners(startA, endA) = corners(startB, endB)

\* C26: every cell, column or row range of the AST that a successful parse
\* returns has its ends in order once resolved against the address of the
\* formula (start column <= end column, start row <= end row, start sheet <=
\* end sheet), and it covers the cells that the range as written covers, so
\* that A2:A1 gives the range of A1:A2.
C26_RangeCornersOrdered ==
  SuccessfulParse =>
    LET returned == rangesOf(parsed.result.ast)
        written == rangesOf(parsed.cacheResult.ast.node)
    IN  /\ Len(returned) = Len(written)
        /\ \A i \in 1..Len(returned) :
             /\ Ordered(returned[i], parsed.address)
             /\ SameRange(returned[i], written[i], parsed.address)

\* a formula whose range was written with its ends reversed was parsed
C26_Witness ==
  /\ SuccessfulParse
  /\ \E i \in 1..Len(rangesOf(parsed.cacheResult.ast.node)) :
       /\ ~Ordered(rangesOf(parsed.cacheResult.ast.node)[i], parsed.address)
       /\ rangesOf(parsed.cacheResult.ast.node)[i].type = "CELL_RANGE"
       /\ Ordered(rangesOf(parsed.result.ast)[i], parsed.address)

\* C28 as stated: the AST that a successful parse returns hashes to the hash
\* of the tokens under which the formula was cached, and
\* fetchCachedResultForAst of that AST finds an entry in the cache.
C28_ReturnedAstHashesToCachedHash ==
  /\ SuccessfulParse => computeHashFromAst(parsed.result.ast) = parsed.hash
  /\ parsed.op = "fetchCachedResultForAst" => parsed.cacheResult # undefined

\* fetchCachedResultForAst of the AST that parse returned for a formula with
\* a reversed range found no entry in the cache
C28_FetchThrows ==
  /\ parsed.op = "fetchCachedResultForAst"
  /\ parsed.cacheResult = undefined
  /\ parser.cache # <<>>

\* C29: a parse that ends in a lexing or a parsing error leaves the cache as
\* it was, the cache holds no entry under the hash of the formula, and the
\* result has no dependencies and neither a volatile nor a structural-change
\* function.
C29_FailedParseLeavesCache ==
  [][(parsed'.op = "parse" /\ parsed'.result.errors > 0) =>
       /\ parser'.cache = parser.cache
       /\ parsed'.hash \notin DOMAIN parser'.cache
       /\ parsed'.result.dependencies = <<>>
       /\ ~parsed'.result.hasVolatileFunction
       /\ ~parsed'.result.hasStructuralChangeFunction]_vars

\* a formula that the lexer accepts and the parser rejects was parsed by a
\* parser whose cache holds formulas
C29_Witness ==
  /\ parsed.op = "parse"
  /\ parsed.result.errors > 0
  /\ parsed.hash # <<>>
  /\ parser.cache # <<>>


====
